---- MODULE Spec2Model ----
(***************************************************************************)
(* A model of the errdetails package (ClaudiaJ/errdetails): error chains   *)
(* built by wrapping, the typed detail layers, the status-code layer, the  *)
(* JSON envelope written by ToJSON and the chain rebuilt by FromJSON.      *)
(*                                                                         *)
(* An error chain is a sequence of layers, head (outermost) first.  The    *)
(* empty sequence is the nil error.  A layer that has an Unwrap method is  *)
(* followed by its parent; an errorString (errors.New) ends the chain.     *)
(***************************************************************************)
EXTENDS Integers, Sequences, FiniteSets, TLC

VARIABLES
  err,       \* the error chain the program holds (Nil before it makes one)
  built,     \* how err was made: the constructor and every wrapper, in call order
  supplied,  \* by layer id: the items handed to the layer's constructor and mutators
  nmut,      \* the number of mutator calls made on layers of err
  body,      \* the last result of ToJSON, and the chain it was called on
  got,       \* the last result of FromJSON, and the mappers it was called with
  resp,      \* what HandlerFunc.ServeHTTP did with the ResponseWriter and the sink
  handler,   \* the package's errorHandler: its mu and its handler field
  gs,        \* the goroutines that use the sink: where each is in its call
  ncalls,    \* the number of calls of Handle and SetErrorHandler made so far
  installs,  \* history: the handlers of the SetErrorHandler calls that returned
  race,      \* the goroutines that append to one layer of err without a lock
  probe,     \* the last call of arbitraryError.Is: receiver, target and result
  panicked,  \* the function that aborted with a runtime panic, "" when none did
  rpc        \* what the RPC interceptor returned for the handler's error

\* the variables of the chain, its serialised form and the chain rebuilt
chainVars == <<err, built, supplied, nmut, body, got>>

\* the variables of the sink
sinkVars == <<handler, gs, ncalls, installs>>

\* the variables of the adapters and the sink
\* the variables of the calls that may abort, and of the RPC interceptors
callVars == <<panicked, rpc>>

others == <<resp, sinkVars, race, probe, callVars>>

vars == <<err, built, supplied, nmut, body, got, resp, handler, gs, ncalls, installs, race, probe,
         panicked, rpc>>

(***************************************************************************)
(* Bounds of the model.                                                    *)
(***************************************************************************)
\* wrappers handed to New / WithDetails over the life of one chain
MaxDetails == 2
\* mutator calls (WithViolation, WithLinks, WithDelay) made on one chain
MaxMutations == 2
\* detail entries of an envelope received from another process
MaxEntries == 2

(***************************************************************************)
(* Status codes (google.golang.org/grpc/codes as used by errors.go).       *)
(***************************************************************************)
OK == 0
Canceled == 1
Unknown == 2
InvalidArgument == 3
DeadlineExceeded == 4
NotFound == 5
AlreadyExists == 6
PermissionDenied == 7
ResourceExhausted == 8
FailedPrecondition == 9
Aborted == 10
OutOfRange == 11
Unimplemented == 12
Internal == 13
Unavailable == 14
DataLoss == 15
Unauthenticated == 16

\* the closed set of codes
Codes == OK..Unauthenticated

\* the codes that have a package-level sentinel (ErrCanceled .. ErrUnauthenticated)
SentinelCodes == Canceled..Unauthenticated

\* codes.Code.String(), the %s of errCodeError.Error
CodeString(c) ==
  CASE c = OK -> "OK"
    [] c = Canceled -> "Canceled"
    [] c = Unknown -> "Unknown"
    [] c = InvalidArgument -> "InvalidArgument"
    [] c = DeadlineExceeded -> "DeadlineExceeded"
    [] c = NotFound -> "NotFound"
    [] c = AlreadyExists -> "AlreadyExists"
    [] c = PermissionDenied -> "PermissionDenied"
    [] c = ResourceExhausted -> "ResourceExhausted"
    [] c = FailedPrecondition -> "FailedPrecondition"
    [] c = Aborted -> "Aborted"
    [] c = OutOfRange -> "OutOfRange"
    [] c = Unimplemented -> "Unimplemented"
    [] c = Internal -> "Internal"
    [] c = Unavailable -> "Unavailable"
    [] c = DataLoss -> "DataLoss"
    [] c = Unauthenticated -> "Unauthenticated"
    [] OTHER -> "Code(N)"

(***************************************************************************)
(* Strings.  A Go string that is not valid UTF-8 cannot be marshalled by   *)
(* the protobuf codecs; InvalidUTF8 stands for such a string.              *)
(***************************************************************************)
InvalidUTF8 == "\\xff"

ValidString(s) == s # InvalidUTF8

\* the nil error
Nil == <<>>

(***************************************************************************)
(* Protobuf messages of google.golang.org/genproto/.../errdetails, as Go   *)
(* structs.  `type` is the message's full name.                            *)
(***************************************************************************)
TBadRequest == "google.rpc.BadRequest"
TDebugInfo == "google.rpc.DebugInfo"
TErrorInfo == "google.rpc.ErrorInfo"
THelp == "google.rpc.Help"
TLocalizedMessage == "google.rpc.LocalizedMessage"
TPreconditionFailure == "google.rpc.PreconditionFailure"
TQuotaFailure == "google.rpc.QuotaFailure"
TRequestInfo == "google.rpc.RequestInfo"
TResourceInfo == "google.rpc.ResourceInfo"
TRetryInfo == "google.rpc.RetryInfo"
\* a message type the process has registered that is none of the ten above
TDuration == "google.protobuf.Duration"
\* a message type the process has not registered
TUnregistered == "example.Unregistered"
\* a registered message type, none of the ten above, with a required field
\* (Name): anypb.UnmarshalNew rejects a payload that lacks it
TStrict == "example.Strict"

BuiltinTypes == {TBadRequest, TDebugInfo, TErrorInfo, THelp, TLocalizedMessage,
                 TPreconditionFailure, TQuotaFailure, TRequestInfo,
                 TResourceInfo, TRetryInfo}

RegisteredTypes == BuiltinTypes \cup {TDuration, TStrict}

\* the kinds whose payload is a list of items that an append mutator extends
MultiItemTypes == {TBadRequest, THelp, TPreconditionFailure, TQuotaFailure}

\* the Go struct type of the layer that FromJSON / the With* constructors
\* build for a message type
LayerKind(t) ==
  CASE t = TBadRequest -> "errBadRequest"
    [] t = TDebugInfo -> "errDebugInfo"
    [] t = TErrorInfo -> "errInfo"
    [] t = THelp -> "errHelpLink"
    [] t = TLocalizedMessage -> "localizedError"
    [] t = TPreconditionFailure -> "errPreconditionFailed"
    [] t = TQuotaFailure -> "errQuotaFailure"
    [] t = TRequestInfo -> "errRequestInfo"
    [] t = TResourceInfo -> "errResourceInfo"
    [] t = TRetryInfo -> "errRetryInfo"
    [] OTHER -> "arbitraryError"

DetailKinds == {LayerKind(t) : t \in BuiltinTypes} \cup {"arbitraryError"}

\* Go's integer division and remainder (truncated toward zero)
Quot(a, b) == IF a >= 0 THEN a \div b ELSE 0 - ((0 - a) \div b)

Rem(a, b) == a - b * Quot(a, b)

\* nanoseconds per second (time.Second)
Second == 1000000000

\* durationpb.New(d): a time.Duration split into seconds and nanos
DurationpbNew(d) == [Seconds |-> Quot(d, Second), Nanos |-> Rem(d, Second)]

\* (*durationpb.Duration).AsDuration() of a pointer x (a sequence holding the
\* Duration, or empty for a nil pointer, which reads as zero)
AsDuration(x) == IF x = <<>> THEN 0 ELSE x[1].Seconds * Second + x[1].Nanos

(***************************************************************************)
(* Items handed to the append mutators and constructors.  An argument is   *)
(* either the protobuf fragment itself (`native`, stored as it is) or some *)
(* other implementation of the details interface, of which only the values *)
(* of the getters are copied into a new fragment.                          *)
(***************************************************************************)
\* one details.FieldViolation as stored in a BadRequest: the fragment itself,
\* or a new fragment filled from GetField / GetDescription
MkFieldViolation(v) == [Field |-> v.Field, Description |-> v.Description]

\* one details.HelpLink as stored in a Help
MkHelpLink(l) == [Description |-> l.Description, Url |-> l.Url]

\* one details.PreconditionViolation as stored in a PreconditionFailure
MkPreconditionViolation(v) ==
  [Type |-> v.Type, Subject |-> v.Subject, Description |-> v.Description]

\* one details.QuotaViolation as stored in a QuotaFailure
MkQuotaViolation(v) == [Subject |-> v.Subject, Description |-> v.Description]

\* the loop of an append mutator: v[idx] for every argument, in argument order
Materialize(t, items) ==
  [i \in 1..Len(items) |->
     CASE t = TBadRequest -> MkFieldViolation(items[i])
       [] t = THelp -> MkHelpLink(items[i])
       [] t = TPreconditionFailure -> MkPreconditionViolation(items[i])
       [] t = TQuotaFailure -> MkQuotaViolation(items[i])]

\* the item list of a multi-item message
ItemsOf(m) ==
  CASE m.type = TBadRequest -> m.FieldViolations
    [] m.type = THelp -> m.Links
    [] m.type = TPreconditionFailure -> m.Violations
    [] m.type = TQuotaFailure -> m.Violations

\* the message with its item list replaced
WithItems(m, xs) ==
  CASE m.type = TBadRequest -> [m EXCEPT !.FieldViolations = xs]
    [] m.type = THelp -> [m EXCEPT !.Links = xs]
    [] m.type = TPreconditionFailure -> [m EXCEPT !.Violations = xs]
    [] m.type = TQuotaFailure -> [m EXCEPT !.Violations = xs]

\* the empty message a With* constructor of a multi-item kind allocates
EmptyMessage(t) ==
  CASE t = TBadRequest -> [type |-> t, FieldViolations |-> <<>>]
    [] t = THelp -> [type |-> t, Links |-> <<>>]
    [] t = TPreconditionFailure -> [type |-> t, Violations |-> <<>>]
    [] t = TQuotaFailure -> [type |-> t, Violations |-> <<>>]

(***************************************************************************)
(* Layers and chains.                                                      *)
(***************************************************************************)
\* errors.New(msg)
ErrorsNew(msg) == <<[kind |-> "errorString", s |-> msg]>>

\* the identity of a layer allocated around parent e (its depth in the chain)
NewId(e) == Len(e) + 1

\* &errCodeError{error: e, Code: code}
CodeLayer(e, code) == <<[kind |-> "errCodeError", id |-> NewId(e), Code |-> code]>> \o e

\* a faulty dispatch whose type switch has no default branch
DetailLayerBuiltinOnly(e, m) ==
  IF m.type \in BuiltinTypes
  THEN <<[kind |-> LayerKind(m.type), id |-> NewId(e), msg |-> m]>> \o e
  ELSE e

\* &errX{error: e, X: m} for a protobuf message m
DetailLayer(e, m) == <<[kind |-> LayerKind(m.type), id |-> NewId(e), msg |-> m]>> \o e

\* errors.Unwrap(e): the parent of the head layer; an errorString has none
Unwrap(e) ==
  IF e = Nil THEN Nil
  ELSE IF Head(e).kind = "errorString" THEN Nil
  ELSE Tail(e)

\* does the head layer of e carry a protobuf message (from.(protoreflect.ProtoMessage))
IsProtoMessage(layer) == layer.kind \in DetailKinds

\* a faulty append that overwrites the list: x.Items = v
AppendItemsReplace(layer, items) ==
  [layer EXCEPT !.msg = WithItems(@, Materialize(@.type, items))]

\* the head layer with the items appended to its message's list
\* (x.Items = append(x.Items, v...); return x)
\* an append that returns a new layer in place of the receiver
AppendItemsToCopy(layer, items) ==
  [layer EXCEPT !.id = @ + 1,
                !.msg = WithItems(@, ItemsOf(@) \o Materialize(@.type, items))]

AppendItems(layer, items) ==
  [layer EXCEPT !.msg = WithItems(@, ItemsOf(@) \o Materialize(@.type, items))]

\* (*errBadRequest).WithViolation
BadRequest_WithViolation(layer, violations) == AppendItems(layer, violations)

\* (*errHelpLink).WithLinks
WithLinks(layer, links) == AppendItems(layer, links)

\* (*errPreconditionFailed).WithViolation
Precondition_WithViolation(layer, violations) == AppendItems(layer, violations)

\* (*errQuotaFailure).WithViolation
Quota_WithViolation(layer, violations) == AppendItems(layer, violations)

\* (*errRetryInfo).WithDelay: replaces the stored duration
WithDelay(layer, d) == [layer EXCEPT !.msg.RetryDelay = <<DurationpbNew(d)>>]

\* the append mutator of a multi-item layer, by the layer's type
AppendTo(layer, items) ==
  CASE layer.kind = "errBadRequest" -> BadRequest_WithViolation(layer, items)
    [] layer.kind = "errHelpLink" -> WithLinks(layer, items)
    [] layer.kind = "errPreconditionFailed" -> Precondition_WithViolation(layer, items)
    [] layer.kind = "errQuotaFailure" -> Quota_WithViolation(layer, items)

\* GetViolations / GetLinks: a copy of the layer's item list, in order
GetItems(layer) == [k \in 1..Len(ItemsOf(layer.msg)) |-> ItemsOf(layer.msg)[k]]

\* (*errRetryInfo).GetRetryDelay
GetRetryDelay(layer) == AsDuration(layer.msg.RetryDelay)

\* the head of a chain replaced by layer (the mutators change the layer in place)
SetHead(e, layer) == <<layer>> \o Tail(e)

WithBadRequest(e, violations) ==
  LET req == DetailLayer(e, EmptyMessage(TBadRequest))
  IN SetHead(req, BadRequest_WithViolation(Head(req), violations))

WithHelp(e, links) ==
  LET req == DetailLayer(e, EmptyMessage(THelp))
  IN SetHead(req, WithLinks(Head(req), links))

WithPreconditionFailure(e, violations) ==
  LET wrapped == DetailLayer(e, EmptyMessage(TPreconditionFailure))
  IN SetHead(wrapped, Precondition_WithViolation(Head(wrapped), violations))

WithQuotaFailure(e, violations) ==
  LET wrapped == DetailLayer(e, EmptyMessage(TQuotaFailure))
  IN SetHead(wrapped, Quota_WithViolation(Head(wrapped), violations))

WithRequestInfo(e, info) ==
  DetailLayer(e, [type |-> TRequestInfo, RequestId |-> info.RequestId,
                  ServingData |-> info.ServingData])

WithDebug(e, info) ==
  DetailLayer(e, [type |-> TDebugInfo, StackEntries |-> info.StackEntries,
                  Detail |-> info.Detail])

WithCause(e, info) ==
  DetailLayer(e, [type |-> TErrorInfo, Reason |-> info.Reason,
                  Domain |-> info.Domain, Metadata |-> info.Metadata])

WithLocalizedMessage(e, m) ==
  DetailLayer(e, [type |-> TLocalizedMessage, Locale |-> m.Locale,
                  Message |-> m.Message])

WithResource(e, info) ==
  DetailLayer(e, [type |-> TResourceInfo, ResourceType |-> info.ResourceType,
                  ResourceName |-> info.ResourceName, Owner |-> info.Owner,
                  Description |-> info.Description])

WithRetryDelay(e, delay) ==
  DetailLayer(e, [type |-> TRetryInfo, RetryDelay |-> <<DurationpbNew(delay)>>])

(***************************************************************************)
(* Details: the wrappers handed to New and WithDetails.  A wrapper is the  *)
(* call that made it: its constructor `fn` and that call's argument.       *)
(***************************************************************************)
\* wrapper.Wrap(e)
Wrap(w, e) ==
  CASE w.fn = "Code" -> CodeLayer(e, w.arg)
    [] w.fn = "BadRequest" -> WithBadRequest(e, w.arg)
    [] w.fn = "Help" -> WithHelp(e, w.arg)
    [] w.fn = "PreconditionFailure" -> WithPreconditionFailure(e, w.arg)
    [] w.fn = "QuotaFailure" -> WithQuotaFailure(e, w.arg)
    [] w.fn = "RequestInfo" -> WithRequestInfo(e, w.arg)
    [] w.fn = "Debug" -> WithDebug(e, w.arg)
    [] w.fn = "Cause" -> WithCause(e, w.arg)
    [] w.fn = "LocalizedMessage" -> WithLocalizedMessage(e, w.arg)
    [] w.fn = "Resource" -> WithResource(e, w.arg)
    [] w.fn = "RetryDelay" -> WithRetryDelay(e, w.arg)
    [] w.fn = "Mapped" -> <<[kind |-> "mapped", id |-> NewId(e), by |-> w.arg]>> \o e
    [] w.fn = "HTTPStatus" ->
         <<[kind |-> "httpStatusError", id |-> NewId(e), code |-> w.arg]>> \o e

RECURSIVE WithDetails(_, _)
\* for _, wrapper := range details { err = wrapper.Wrap(err) }
WithDetails(e, details) ==
  IF details = <<>> THEN e
  ELSE WithDetails(Wrap(Head(details), e), Tail(details))

New(code, msg, details) == WithDetails(CodeLayer(ErrorsNew(msg), code), details)

(***************************************************************************)
(* Display text, capability probing (errors.As) and errors.Is.             *)
(***************************************************************************)
\* the text fmt prints for %s of an error whose Error method panics
PanicText == "%!s(PANIC=Error method: runtime error: invalid memory address or nil pointer dereference)"

\* the text fmt prints for %s of a nil error
NilText == "%!s(<nil>)"

RECURSIVE Panics(_)
\* does e.Error() panic: a layer that only embeds its parent promotes the
\* parent's Error method, which dereferences a nil parent
Panics(e) ==
  /\ e # Nil
  /\ Head(e).kind \notin {"errorString", "errCodeError"}
  /\ (Tail(e) = Nil \/ Panics(Tail(e)))

RECURSIVE Error(_)
\* e.Error() of a non-nil chain whose Error method returns
Error(e) ==
  CASE Head(e).kind = "errorString" -> Head(e).s
    [] Head(e).kind = "errCodeError" ->
         CodeString(Head(e).Code) \o ": " \o
           (IF Tail(e) = Nil THEN NilText
            ELSE IF Panics(Tail(e)) THEN PanicText
            ELSE Error(Tail(e)))
    [] OTHER -> Error(Tail(e))

\* the text fmt prints for the %s verb applied to the error e
DisplayText(e) ==
  IF e = Nil THEN NilText
  ELSE IF Panics(e) THEN PanicText
  ELSE Error(e)

RECURSIVE ValidText(_)
\* is the text of e.Error() valid UTF-8
ValidText(e) ==
  IF e = Nil \/ Panics(e) THEN TRUE
  ELSE IF Head(e).kind = "errorString" THEN ValidString(Head(e).s)
  ELSE ValidText(Tail(e))

\* the interface of the package that a layer's struct type satisfies
CapabilityOf(kind) ==
  CASE kind = "errCodeError" -> "statusError"
    [] kind = "errBadRequest" -> "BadRequestError"
    [] kind = "errHelpLink" -> "HelpfulError"
    [] kind = "errPreconditionFailed" -> "FailedPreconditionError"
    [] kind = "errQuotaFailure" -> "FailedQuotaError"
    [] kind = "errRequestInfo" -> "RequestInfoError"
    [] kind = "errDebugInfo" -> "DebugError"
    [] kind = "errInfo" -> "CausedError"
    [] kind = "localizedError" -> "LocalizedError"
    [] kind = "errResourceInfo" -> "ResourceInfoError"
    [] kind = "errRetryInfo" -> "RetriableError"
    [] kind = "httpStatusError" -> "hasStatusCode"
    [] OTHER -> "error"

Capabilities == {CapabilityOf(k) : k \in DetailKinds \cup {"errCodeError"}} \ {"error"}

RECURSIVE AsInnermost(_, _)
\* a faulty errors.As that keeps walking and answers with the last layer that
\* satisfies cap
AsInnermost(e, cap) ==
  IF e = Nil THEN 0
  ELSE LET r == AsInnermost(Unwrap(e), cap)
       IN IF r # 0 THEN r + 1
          ELSE IF CapabilityOf(Head(e).kind) = cap THEN 1 ELSE 0

RECURSIVE As(_, _)
\* errors.As(e, &target) for a target of interface type cap: the position in
\* e of the first layer, walking by Unwrap, that satisfies cap; 0 when none
As(e, cap) ==
  IF e = Nil THEN 0
  ELSE IF CapabilityOf(Head(e).kind) = cap THEN 1
  ELSE LET r == As(Unwrap(e), cap) IN IF r = 0 THEN 0 ELSE r + 1

\* a faulty Is that accepts every errCodeError target, whatever its code
CodeErrorIsAnyCode(layer, target) ==
  target # Nil /\ Head(target).kind = "errCodeError"

\* (*errCodeError).Is
CodeErrorIs(layer, target) ==
  IF target # Nil /\ Head(target).kind = "errCodeError"
  THEN Head(target).Code = layer.Code
  ELSE FALSE

RECURSIVE IsWalk(_, _)
\* the loop of errors.Is over a non-nil e and a non-nil target: some layer
\* of e is target itself or has an Is method that accepts target
IsWalk(e, target) ==
  IF e = Nil THEN FALSE
  ELSE \/ e = target
       \/ Head(e).kind = "errCodeError" /\ CodeErrorIs(Head(e), target)
       \/ IsWalk(Unwrap(e), target)

\* errors.Is(e, target)
Is(e, target) == IF e = Nil \/ target = Nil THEN e = target ELSE IsWalk(e, target)

\* var errUnknown = errors.New("unknown error")
errUnknown == ErrorsNew("unknown error")

\* ErrCanceled .. ErrUnauthenticated
Sentinel(c) == CodeLayer(errUnknown, c)

\* a list of sentinels that lacks the last one
SentinelsButLast == {Sentinel(c) : c \in Canceled..DataLoss}

\* ErrCanceled .. ErrUnauthenticated
Sentinels == {Sentinel(c) : c \in SentinelCodes}

\* (*errCodeError).GRPCStatus: status.New(e.Code, e.Error())
GRPCStatus(e) == [Code |-> Head(e).Code, Message |-> Error(e)]

(***************************************************************************)
(* The wire form.  protojson leaves a field that holds its zero value out  *)
(* of the object and reads an absent field as the zero value: an optional  *)
(* JSON value is a sequence of length 0 (absent) or 1.                     *)
(***************************************************************************)
OmitZero(v, zero) == IF v = zero THEN <<>> ELSE <<v>>

OrZero(o, zero) == IF o = <<>> THEN zero ELSE o[1]

Abs(n) == IF n < 0 THEN 0 - n ELSE n

\* the "@type" of a message inside an Any
TypeURL(t) == "type.googleapis.com/" \o t

\* a faulty writer that takes the sign from the seconds alone
DurationJSONSignOfSeconds(d) ==
  [neg |-> d.Seconds < 0, secs |-> Abs(d.Seconds), frac |-> Abs(d.Nanos)]

\* a Duration as the decimal text protojson writes: sign, seconds, fraction
DurationJSON(d) ==
  [neg |-> d.Seconds < 0 \/ d.Nanos < 0, secs |-> Abs(d.Seconds), frac |-> Abs(d.Nanos)]

\* the Duration protojson reads back from that text
DurationFromJSON(j) ==
  IF j.neg THEN [Seconds |-> 0 - j.secs, Nanos |-> 0 - j.frac]
  ELSE [Seconds |-> j.secs, Nanos |-> j.frac]

\* every string field of a message
StringsOf(m) ==
  CASE m.type = TBadRequest ->
         UNION {{x.Field, x.Description} : x \in {m.FieldViolations[i] : i \in 1..Len(m.FieldViolations)}}
    [] m.type = THelp ->
         UNION {{x.Url, x.Description} : x \in {m.Links[i] : i \in 1..Len(m.Links)}}
    [] m.type = TPreconditionFailure ->
         UNION {{x.Type, x.Subject, x.Description} : x \in {m.Violations[i] : i \in 1..Len(m.Violations)}}
    [] m.type = TQuotaFailure ->
         UNION {{x.Subject, x.Description} : x \in {m.Violations[i] : i \in 1..Len(m.Violations)}}
    [] m.type = TDebugInfo ->
         {m.Detail} \cup {m.StackEntries[i] : i \in 1..Len(m.StackEntries)}
    [] m.type = TErrorInfo ->
         {m.Reason, m.Domain} \cup UNION {{kv[1], kv[2]} : kv \in m.Metadata}
    [] m.type = TLocalizedMessage -> {m.Locale, m.Message}
    [] m.type = TRequestInfo -> {m.RequestId, m.ServingData}
    [] m.type = TResourceInfo -> {m.ResourceType, m.ResourceName, m.Owner, m.Description}
    [] m.type = TStrict -> {m.Name}
    [] OTHER -> {}

\* anypb.New(m) succeeds: the message marshals, which a string field that is
\* not valid UTF-8 prevents
Marshalable(m) == \A str \in StringsOf(m) : ValidString(str)

\* the JSON object of one detail: anypb.New, then protojson.Marshal of the Any
MarshalAny(m) ==
  CASE m.type = TBadRequest ->
         [atType |-> TypeURL(m.type),
          fieldViolations |-> [i \in 1..Len(m.FieldViolations) |->
             [field |-> OmitZero(m.FieldViolations[i].Field, ""),
              description |-> OmitZero(m.FieldViolations[i].Description, "")]]]
    [] m.type = THelp ->
         [atType |-> TypeURL(m.type),
          links |-> [i \in 1..Len(m.Links) |->
             [url |-> OmitZero(m.Links[i].Url, ""),
              description |-> OmitZero(m.Links[i].Description, "")]]]
    [] m.type = TPreconditionFailure ->
         [atType |-> TypeURL(m.type),
          violations |-> [i \in 1..Len(m.Violations) |->
             [type |-> OmitZero(m.Violations[i].Type, ""),
              subject |-> OmitZero(m.Violations[i].Subject, ""),
              description |-> OmitZero(m.Violations[i].Description, "")]]]
    [] m.type = TQuotaFailure ->
         [atType |-> TypeURL(m.type),
          violations |-> [i \in 1..Len(m.Violations) |->
             [subject |-> OmitZero(m.Violations[i].Subject, ""),
              description |-> OmitZero(m.Violations[i].Description, "")]]]
    [] m.type = TDebugInfo ->
         [atType |-> TypeURL(m.type), stackEntries |-> m.StackEntries,
          detail |-> OmitZero(m.Detail, "")]
    [] m.type = TErrorInfo ->
         [atType |-> TypeURL(m.type), reason |-> OmitZero(m.Reason, ""),
          domain |-> OmitZero(m.Domain, ""), metadata |-> m.Metadata]
    [] m.type = TLocalizedMessage ->
         [atType |-> TypeURL(m.type), locale |-> OmitZero(m.Locale, ""),
          message |-> OmitZero(m.Message, "")]
    [] m.type = TRequestInfo ->
         [atType |-> TypeURL(m.type), requestId |-> OmitZero(m.RequestId, ""),
          servingData |-> OmitZero(m.ServingData, "")]
    [] m.type = TResourceInfo ->
         [atType |-> TypeURL(m.type), resourceType |-> OmitZero(m.ResourceType, ""),
          resourceName |-> OmitZero(m.ResourceName, ""),
          owner |-> OmitZero(m.Owner, ""),
          description |-> OmitZero(m.Description, "")]
    [] m.type = TRetryInfo ->
         [atType |-> TypeURL(m.type),
          retryDelay |-> IF m.RetryDelay = <<>> THEN <<>>
                         ELSE <<DurationJSON(m.RetryDelay[1])>>]
    [] m.type = TDuration ->
         [atType |-> TypeURL(m.type), value |-> DurationJSON(m)]
    [] m.type = TStrict ->
         [atType |-> TypeURL(m.type), name |-> <<m.Name>>]

\* is the "@type" of a JSON detail one the type registry resolves
Resolvable(j) == \E t \in RegisteredTypes : j.atType = TypeURL(t)

\* does anypb.UnmarshalNew accept the detail: its type resolves and no
\* required field of the message is missing
Decodable(j) ==
  /\ Resolvable(j)
  /\ j.atType = TypeURL(TStrict) => j.name # <<>>

\* the message of one JSON detail whose type resolves: protojson.Unmarshal
\* into the Any, then anypb.UnmarshalNew
UnmarshalNew(j) ==
  LET t == CHOOSE t \in RegisteredTypes : j.atType = TypeURL(t)
  IN CASE t = TBadRequest ->
            [type |-> t,
             FieldViolations |-> [i \in 1..Len(j.fieldViolations) |->
                [Field |-> OrZero(j.fieldViolations[i].field, ""),
                 Description |-> OrZero(j.fieldViolations[i].description, "")]]]
       [] t = THelp ->
            [type |-> t,
             Links |-> [i \in 1..Len(j.links) |->
                [Description |-> OrZero(j.links[i].description, ""),
                 Url |-> OrZero(j.links[i].url, "")]]]
       [] t = TPreconditionFailure ->
            [type |-> t,
             Violations |-> [i \in 1..Len(j.violations) |->
                [Type |-> OrZero(j.violations[i].type, ""),
                 Subject |-> OrZero(j.violations[i].subject, ""),
                 Description |-> OrZero(j.violations[i].description, "")]]]
       [] t = TQuotaFailure ->
            [type |-> t,
             Violations |-> [i \in 1..Len(j.violations) |->
                [Subject |-> OrZero(j.violations[i].subject, ""),
                 Description |-> OrZero(j.violations[i].description, "")]]]
       [] t = TDebugInfo ->
            [type |-> t, StackEntries |-> j.stackEntries,
             Detail |-> OrZero(j.detail, "")]
       [] t = TErrorInfo ->
            [type |-> t, Reason |-> OrZero(j.reason, ""),
             Domain |-> OrZero(j.domain, ""), Metadata |-> j.metadata]
       [] t = TLocalizedMessage ->
            [type |-> t, Locale |-> OrZero(j.locale, ""),
             Message |-> OrZero(j.message, "")]
       [] t = TRequestInfo ->
            [type |-> t, RequestId |-> OrZero(j.requestId, ""),
             ServingData |-> OrZero(j.servingData, "")]
       [] t = TResourceInfo ->
            [type |-> t, ResourceType |-> OrZero(j.resourceType, ""),
             ResourceName |-> OrZero(j.resourceName, ""),
             Owner |-> OrZero(j.owner, ""),
             Description |-> OrZero(j.description, "")]
       [] t = TRetryInfo ->
            [type |-> t,
             RetryDelay |-> IF j.retryDelay = <<>> THEN <<>>
                            ELSE <<DurationFromJSON(j.retryDelay[1])>>]
       [] t = TDuration ->
            [type |-> t, Seconds |-> DurationFromJSON(j.value).Seconds,
             Nanos |-> DurationFromJSON(j.value).Nanos]
       [] t = TStrict ->
            [type |-> t, Name |-> j.name[1]]

(***************************************************************************)
(* ToJSON and FromJSON.                                                    *)
(***************************************************************************)
RECURSIVE ProtoDetailsInnerFirst(_)
\* a faulty walk that lists the messages from the innermost layer outward
ProtoDetailsInnerFirst(from) ==
  IF from = Nil THEN <<>>
  ELSE ProtoDetailsInnerFirst(Unwrap(from))
         \o (IF IsProtoMessage(Head(from)) THEN <<Head(from).msg>> ELSE <<>>)

RECURSIVE ProtoDetails(_)
\* the loop of ToJSON: the message of every layer that is a ProtoMessage,
\* from the head along Unwrap, in the order met
ProtoDetails(from) ==
  IF from = Nil THEN <<>>
  ELSE (IF IsProtoMessage(Head(from)) THEN <<Head(from).msg>> ELSE <<>>)
         \o ProtoDetails(Unwrap(from))

\* a faulty conversion that takes the last status layer of the chain
ToStatusInnermost(from) ==
  LET S == {i \in 1..Len(from) : from[i].kind = "errCodeError"}
  IN IF S = {} THEN CodeLayer(from, Unknown)
     ELSE SubSeq(from, CHOOSE i \in S : \A j \in S : j <= i, Len(from))

\* a faulty conversion that defaults to codes.Internal
ToStatusDefaultInternal(from) ==
  LET i == As(from, "statusError")
  IN IF i = 0 THEN CodeLayer(from, Internal) ELSE SubSeq(from, i, Len(from))

\* the statusError ToJSON converts: the first layer that is one, or a new
\* errCodeError{error: from, Code: codes.Unknown}
ToStatus(from) ==
  LET i == As(from, "statusError")
  IN IF i = 0 THEN CodeLayer(from, Unknown) ELSE SubSeq(from, i, Len(from))

\* a faulty ToJSON whose walk takes the built-in layers only
ToJSONBuiltinOnly(from) ==
  LET toStatus == ToStatus(from)
      p == GRPCStatus(toStatus)
      all == ProtoDetails(from)
      ds == SelectSeq(all, LAMBDA m : m.type \in BuiltinTypes)
  IN IF \E k \in 1..Len(ds) : ~Marshalable(ds[k])
     THEN [err |-> "anypb.New", bytes |-> <<>>]
     ELSE IF ~ValidText(toStatus)
     THEN [err |-> "protojson.Marshal", bytes |-> <<>>]
     ELSE [err |-> "",
           bytes |-> <<[code |-> OmitZero(p.Code, 0),
                        message |-> OmitZero(p.Message, ""),
                        details |-> [k \in 1..Len(ds) |-> MarshalAny(ds[k])]]>>]

\* ToJSON(from): err is "" when it succeeds and bytes is then the envelope
ToJSON(from) ==
  LET toStatus == ToStatus(from)
      p == GRPCStatus(toStatus)
      ds == ProtoDetails(from)
  IN IF \E k \in 1..Len(ds) : ~Marshalable(ds[k])
     THEN [err |-> "anypb.New", bytes |-> <<>>]
     ELSE IF ~ValidText(toStatus)
     THEN [err |-> "protojson.Marshal", bytes |-> <<>>]
     ELSE [err |-> "",
           bytes |-> <<[code |-> OmitZero(p.Code, 0),
                        message |-> OmitZero(p.Message, ""),
                        details |-> [k \in 1..Len(ds) |-> MarshalAny(ds[k])]]>>]

\* the error FromJSON returns when the body or a detail does not decode
DecodeError == <<[kind |-> "errorString", s |-> "proto: syntax error"]>>

\* mapper.Map(pb): the wrapper of a mapper for a message, Nil when it has none
Map(mapper, pb) ==
  IF pb.type \in mapper.types THEN [fn |-> "Mapped", arg |-> mapper.name] ELSE Nil

RECURSIVE ApplyMappersFirstMatch(_, _, _)
\* a faulty loop that breaks after the first mapper that returns a wrapper
ApplyMappersFirstMatch(st, pb, mappers) ==
  IF mappers = <<>> THEN st
  ELSE LET wrapper == Map(Head(mappers), pb)
           called == Append(st.calls, <<pb.type, Head(mappers).name>>)
       IN IF wrapper # Nil
          THEN [sterr |-> Wrap(wrapper, st.sterr), calls |-> called]
          ELSE ApplyMappersFirstMatch([sterr |-> st.sterr, calls |-> called],
                                      pb, Tail(mappers))

RECURSIVE ApplyMappers(_, _, _)
\* for _, mapper := range mappers { if wrapper := mapper.Map(pb); wrapper != nil {...} }
\* st holds sterr and the log of the Map calls made
ApplyMappers(st, pb, mappers) ==
  IF mappers = <<>> THEN st
  ELSE LET wrapper == Map(Head(mappers), pb)
           called == Append(st.calls, <<pb.type, Head(mappers).name>>)
       IN ApplyMappers([sterr |-> IF wrapper # Nil THEN Wrap(wrapper, st.sterr)
                                  ELSE st.sterr,
                        calls |-> called],
                       pb, Tail(mappers))

RECURSIVE ReplayLastFirst(_, _, _)
\* a faulty loop that ranges over s.Details from the last entry to the first
ReplayLastFirst(st, details, mappers) ==
  IF details = <<>> THEN st
  ELSE IF ~Decodable(details[Len(details)])
  THEN [sterr |-> DecodeError, calls |-> st.calls]
  ELSE LET pb == UnmarshalNew(details[Len(details)])
           mapped == ApplyMappers(st, pb, mappers)
       IN ReplayLastFirst([sterr |-> DetailLayer(mapped.sterr, pb),
                           calls |-> mapped.calls],
                          SubSeq(details, 1, Len(details) - 1), mappers)

RECURSIVE ReplayKeepsPartial(_, _, _)
\* a faulty loop that stops at a detail it cannot decode and keeps what it built
ReplayKeepsPartial(st, details, mappers) ==
  IF details = <<>> \/ ~Decodable(Head(details)) THEN st
  ELSE LET pb == UnmarshalNew(Head(details))
           mapped == ApplyMappers(st, pb, mappers)
       IN ReplayKeepsPartial([sterr |-> DetailLayer(mapped.sterr, pb),
                              calls |-> mapped.calls],
                             Tail(details), mappers)

RECURSIVE Replay(_, _, _)
\* for _, detail := range s.Details { ... }
Replay(st, details, mappers) ==
  IF details = <<>> THEN st
  ELSE IF ~Decodable(Head(details))
  THEN [sterr |-> DecodeError, calls |-> st.calls]
  ELSE LET pb == UnmarshalNew(Head(details))
           mapped == ApplyMappers(st, pb, mappers)
       IN Replay([sterr |-> DetailLayer(mapped.sterr, pb), calls |-> mapped.calls],
                 Tail(details), mappers)

\* a faulty FromJSON that does not read the envelope's code
FromJSONWithoutCode(bytes, mappers) ==
  IF bytes = <<>> \/ \E k \in 1..Len(bytes[1].details) : ~Resolvable(bytes[1].details[k])
  THEN [sterr |-> DecodeError, calls |-> <<>>]
  ELSE Replay([sterr |-> New(OK, OrZero(bytes[1].message, ""), <<>>), calls |-> <<>>],
              bytes[1].details, mappers)

\* FromJSON(r, mappers...) for a reader r that yields bytes: the error it
\* returns (sterr) and the Map calls it made (calls)
FromJSON(bytes, mappers) ==
  IF bytes = <<>> \/ \E k \in 1..Len(bytes[1].details) : ~Resolvable(bytes[1].details[k])
  THEN [sterr |-> DecodeError, calls |-> <<>>]
  ELSE LET s == [Code |-> OrZero(bytes[1].code, 0),
                 Message |-> OrZero(bytes[1].message, ""),
                 Details |-> bytes[1].details]
       IN Replay([sterr |-> New(s.Code, s.Message, <<>>), calls |-> <<>>],
                 s.Details, mappers)

(***************************************************************************)
(* The HTTP adapter.  The response is what ServeHTTP handed to the         *)
(* ResponseWriter: the header it set, the status it wrote, the value it    *)
(* encoded as the body (each absent, <<>>, or present), and the reports it *)
(* made to the sink with handler.Handle.                                   *)
(***************************************************************************)
\* const contentType
contentType == "application/json"

\* http.StatusInternalServerError
StatusInternalServerError == 500

\* the map ServeHTTP encodes when ToJSON fails
FallbackBody ==
  [status |-> Internal,
   message |-> "Internal Server Error: failed to encode error response"]

\* the response before ServeHTTP has run
NoResp == [done |-> FALSE, contentType |-> <<>>, status |-> <<>>, body |-> <<>>,
           reports |-> <<>>]

\* a faulty adapter that keeps the status of the chain on the fallback path
ServeHTTPKeepsStatus(verr, werr) ==
  IF verr = Nil
  THEN [done |-> TRUE, contentType |-> <<>>, status |-> <<>>, body |-> <<>>,
        reports |-> <<>>]
  ELSE LET i == As(verr, "hasStatusCode")
           statusCode == IF i # 0 THEN verr[i].code ELSE StatusInternalServerError
           r == ToJSON(verr)
       IN IF r.err # ""
          THEN [done |-> TRUE, contentType |-> <<contentType>>,
                status |-> <<statusCode>>, body |-> <<FallbackBody>>,
                reports |-> <<"failed to encode error to JSON">>]
          ELSE [done |-> TRUE, contentType |-> <<contentType>>,
                status |-> <<statusCode>>, body |-> r.bytes,
                reports |-> <<>>]

\* HandlerFunc.ServeHTTP for a handler that returns verr and a ResponseWriter
\* whose Write fails (werr) or not
ServeHTTP(verr, werr) ==
  IF verr = Nil
  THEN [done |-> TRUE, contentType |-> <<>>, status |-> <<>>, body |-> <<>>,
        reports |-> <<>>]
  ELSE LET i == As(verr, "hasStatusCode")
           statusCode == IF i # 0 THEN verr[i].code ELSE StatusInternalServerError
           r == ToJSON(verr)
       IN IF r.err # ""
          THEN [done |-> TRUE, contentType |-> <<contentType>>,
                status |-> <<StatusInternalServerError>>,
                body |-> <<FallbackBody>>,
                reports |-> <<"failed to encode error to JSON">>
                  \o (IF werr
                      THEN <<"failed to write internal server error to ResponseWriter">>
                      ELSE <<>>)]
          ELSE [done |-> TRUE, contentType |-> <<contentType>>,
                status |-> <<statusCode>>,
                body |-> r.bytes,
                reports |-> IF werr
                            THEN <<"failed to write JSON encoded error to ResponseWriter">>
                            ELSE <<>>]

(***************************************************************************)
(* The inputs the program hands to the package.                            *)
(***************************************************************************)
Msgs == {"test error", InvalidUTF8}

FieldViolationInputs ==
  {[native |-> TRUE, Field |-> "field1", Description |-> "desc1"],
   [native |-> FALSE, Field |-> "field2", Description |-> ""]}

HelpLinkInputs ==
  {[native |-> TRUE, Url |-> "url2", Description |-> "desc4"],
   [native |-> FALSE, Url |-> "", Description |-> "desc3"]}

PreconditionViolationInputs ==
  {[native |-> TRUE, Type |-> "TOS", Subject |-> "", Description |-> "not accepted"],
   [native |-> FALSE, Type |-> "", Subject |-> InvalidUTF8, Description |-> ""]}

QuotaViolationInputs ==
  {[native |-> TRUE, Subject |-> "auth0|123456789",
    Description |-> "Rate limit applied for Resend Email"],
   [native |-> FALSE, Subject |-> "", Description |-> ""]}

\* the item arguments of the kind behind a capability
ItemInputs(cap) ==
  CASE cap = "BadRequestError" -> FieldViolationInputs
    [] cap = "HelpfulError" -> HelpLinkInputs
    [] cap = "FailedPreconditionError" -> PreconditionViolationInputs
    [] cap = "FailedQuotaError" -> QuotaViolationInputs

MultiItemCapabilities ==
  {"BadRequestError", "HelpfulError", "FailedPreconditionError", "FailedQuotaError"}

\* time.Duration arguments, in nanoseconds
Delays == {0 - 1500000000}

\* every sequence over S of length lo..hi
SeqsOf(S, lo, hi) == UNION {[1..n -> S] : n \in lo..hi}

\* the Details of the ten detail kinds
DetailWrappers ==
  {[fn |-> "BadRequest", arg |-> <<>>],
   [fn |-> "BadRequest",
    arg |-> <<[native |-> TRUE, Field |-> "field1", Description |-> "desc1"],
              [native |-> FALSE, Field |-> "field2", Description |-> ""]>>],
   [fn |-> "Help",
    arg |-> <<[native |-> TRUE, Url |-> "url2", Description |-> "desc4"]>>],
   [fn |-> "PreconditionFailure",
    arg |-> <<[native |-> TRUE, Type |-> "TOS", Subject |-> "", Description |-> "not accepted"]>>],
   [fn |-> "QuotaFailure",
    arg |-> <<[native |-> TRUE, Subject |-> "auth0|123456789",
               Description |-> "Rate limit applied for Resend Email"]>>],
   [fn |-> "RequestInfo",
    arg |-> [native |-> TRUE, RequestId |-> "123456789", ServingData |-> ""]],
   [fn |-> "Debug",
    arg |-> [native |-> FALSE, StackEntries |-> <<"data.Gnorm/One", "api.Thing/Something">>,
             Detail |-> ""]],
   [fn |-> "Cause",
    arg |-> [native |-> TRUE, Reason |-> "UPSTREAM_THROTTLE", Domain |-> "",
             Metadata |-> {<<"zone", "a">>}]],
   [fn |-> "LocalizedMessage",
    arg |-> [native |-> TRUE, Locale |-> "es-MX", Message |-> "Enviar de nuevo"]],
   [fn |-> "Resource",
    arg |-> [native |-> FALSE, ResourceType |-> "table", ResourceName |-> "public.shopify",
             Owner |-> "", Description |-> InvalidUTF8]],
   [fn |-> "RetryDelay", arg |-> 1500000000],
   [fn |-> "RetryDelay", arg |-> 0 - 1]}

\* Code(c) handed as a wrapper: a further status layer
CodeWrappers == {[fn |-> "Code", arg |-> NotFound], [fn |-> "Code", arg |-> Internal]}

Wrappers == DetailWrappers \cup CodeWrappers

\* the wrappers the program also applies one at a time, and to any chain
CommonWrappers ==
  {[fn |-> "BadRequest",
    arg |-> <<[native |-> TRUE, Field |-> "field1", Description |-> "desc1"],
              [native |-> FALSE, Field |-> "field2", Description |-> ""]>>],
   [fn |-> "Help",
    arg |-> <<[native |-> TRUE, Url |-> "url2", Description |-> "desc4"]>>],
   [fn |-> "Code", arg |-> NotFound]}

\* DetailsMappers: each names the message types for which Map returns a wrapper
Mappers ==
  {[name |-> "m1", types |-> {TBadRequest, TRetryInfo}],
   [name |-> "m2", types |-> {TBadRequest, THelp}]}

\* the mappers arguments of FromJSON: none, one, and two in either order
MapperLists == {<<>>} \cup {ms \in SeqsOf(Mappers, 1, 2) : Len(ms) = 2 \/ ms[1].name = "m1"}

\* the arguments of New: every code with the common wrappers, and one code
\* with every wrapper
NewArgs ==
  (Codes \X Msgs \X SeqsOf(CommonWrappers, 0, MaxDetails))
    \cup ({InvalidArgument} \X {"test error"} \X SeqsOf(Wrappers, 0, MaxDetails))

\* the item arguments of one append call, by capability: one item, or two
\* different items
ItemLists ==
  [cap \in MultiItemCapabilities |->
     {items \in SeqsOf(ItemInputs(cap), 1, 2) : Len(items) = 2 => items[1] # items[2]}]

\* the wrappers of the chains whose layers the program mutates
MutableWrappers ==
  {[fn |-> "BadRequest", arg |-> <<>>],
   [fn |-> "Help",
    arg |-> <<[native |-> TRUE, Url |-> "url2", Description |-> "desc4"]>>],
   [fn |-> "PreconditionFailure", arg |-> <<>>],
   [fn |-> "QuotaFailure", arg |-> <<>>],
   [fn |-> "RetryDelay", arg |-> 1500000000]}

MutArgs == {InvalidArgument} \X {"test error"} \X SeqsOf(MutableWrappers, 0, MaxDetails)

\* detail entries of envelopes written by other processes: a built-in kind,
\* a registered kind that is not built in, a kind this process has not
\* registered, and a registered kind with and without its required field
ExternalDetails ==
  {MarshalAny([type |-> TBadRequest,
               FieldViolations |-> <<[Field |-> "field1", Description |-> "desc1"]>>]),
   MarshalAny([type |-> TDuration, Seconds |-> 60, Nanos |-> 0]),
   [atType |-> TypeURL(TUnregistered)],
   [atType |-> TypeURL(TStrict), name |-> <<"n1">>],
   [atType |-> TypeURL(TStrict), name |-> <<>>]}

\* the bodies a reader hands to FromJSON: text that is not an envelope (no
\* bytes decode), and envelopes with and without code and message
ExternalBodies ==
  {<<>>} \cup
  {<<[code |-> cm[1], message |-> cm[2], details |-> ds]>> :
     cm \in {<<<<>>, <<>>>>, <<<<NotFound>>, <<"NotFound: no such user">>>>,
             <<<<99>>, <<"no such user">>>>},
     ds \in SeqsOf(ExternalDetails, 0, MaxEntries)}

(***************************************************************************)
(* The diagnostic sink.  handler is the package's errorHandler; its mu is  *)
(* a sync.RWMutex: any number of readers, or one writer, and a writer that *)
(* has called Lock keeps new readers out while it waits for the readers    *)
(* inside to leave.  Each goroutine is idle or inside one call of Handle   *)
(* or SetErrorHandler; pc names the statement it is about to execute.      *)
(***************************************************************************)
\* the most calls of Handle and SetErrorHandler the goroutines make together
MaxCalls == 3

Goroutines == {"g1", "g2", "g3"}

\* the handlers of the application, by identity
UserHandlers == {"h1", "h2"}

\* the errors the adapters report
Reports == {"failed to encode error to JSON",
            "failed to write JSON encoded error to ResponseWriter"}

\* a goroutine outside the sink
\* (calls: the invocations of user handlers it made in this call of Handle;
\* seen: the handler field when it got the read lock)
Idle == [pc |-> "idle", err |-> "", h |-> <<>>, seen |-> <<>>, calls |-> <<>>]

\* handler.Handle(err) is called
CallHandle(g, e) ==
  /\ gs[g].pc = "idle"
  /\ ncalls < MaxCalls
  /\ ncalls' = ncalls + 1
  /\ gs' = [gs EXCEPT ![g] = [Idle EXCEPT !.pc = "RLock", !.err = e]]
  /\ UNCHANGED <<handler, installs>>

\* a read lock that does not wait for a writer
RLockIgnoresWriter(g) ==
  /\ gs[g].pc = "RLock"
  /\ handler' = [handler EXCEPT !.mu.readers = @ \cup {g}]
  /\ gs' = [gs EXCEPT ![g].pc = "read", ![g].seen = handler.handler]
  /\ UNCHANGED <<ncalls, installs>>

\* h.mu.RLock() returns: no writer holds or waits for the lock
RLock(g) ==
  /\ gs[g].pc = "RLock"
  /\ handler.mu.writer = <<>>
  /\ handler' = [handler EXCEPT !.mu.readers = @ \cup {g}]
  /\ gs' = [gs EXCEPT ![g].pc = "read", ![g].seen = handler.handler]
  /\ UNCHANGED <<ncalls, installs>>

\* if h.handler != nil { h.handler.Handle(err) }: the user's handler is entered
ReadHandler(g) ==
  /\ gs[g].pc = "read"
  /\ IF handler.handler # <<>>
     THEN gs' = [gs EXCEPT ![g].pc = "invoked",
                           ![g].calls = Append(@, [h |-> handler.handler[1],
                                                   err |-> gs[g].err])]
     ELSE gs' = [gs EXCEPT ![g].pc = "RUnlock"]
  /\ UNCHANGED <<handler, ncalls, installs>>

\* the user's handler returns
HandlerReturns(g) ==
  /\ gs[g].pc = "invoked"
  /\ gs' = [gs EXCEPT ![g].pc = "RUnlock"]
  /\ UNCHANGED <<handler, ncalls, installs>>

\* a Handle that returns without releasing the read lock
RUnlockForgotten(g) ==
  /\ gs[g].pc = "RUnlock"
  /\ gs' = [gs EXCEPT ![g] = Idle]
  /\ UNCHANGED <<handler, ncalls, installs>>

\* defer h.mu.RUnlock(), and Handle returns
RUnlock(g) ==
  /\ gs[g].pc = "RUnlock"
  /\ handler' = [handler EXCEPT !.mu.readers = @ \ {g}]
  /\ gs' = [gs EXCEPT ![g] = Idle]
  /\ UNCHANGED <<ncalls, installs>>

\* SetErrorHandler(h) is called
CallSetErrorHandler(g, h) ==
  /\ gs[g].pc = "idle"
  /\ ncalls < MaxCalls
  /\ ncalls' = ncalls + 1
  /\ gs' = [gs EXCEPT ![g] = [Idle EXCEPT !.pc = "Lock", !.h = h]]
  /\ UNCHANGED <<handler, installs>>

\* handler.mu.Lock(): the writer is admitted among the writers and from now
\* on keeps new readers out
Lock(g) ==
  /\ gs[g].pc = "Lock"
  /\ handler.mu.writer = <<>>
  /\ handler' = [handler EXCEPT !.mu.writer = <<g>>]
  /\ gs' = [gs EXCEPT ![g].pc = "wait"]
  /\ UNCHANGED <<ncalls, installs>>

\* handler.mu.Lock() returns: the readers that were inside have left
LockReturns(g) ==
  /\ gs[g].pc = "wait"
  /\ handler.mu.readers = {}
  /\ gs' = [gs EXCEPT ![g].pc = "store"]
  /\ UNCHANGED <<handler, ncalls, installs>>

\* an assignment that keeps a handler already installed
StoreIfUnset(g) ==
  /\ gs[g].pc = "store"
  /\ handler' = [handler EXCEPT !.handler = IF @ = <<>> THEN gs[g].h ELSE @]
  /\ gs' = [gs EXCEPT ![g].pc = "Unlock"]
  /\ UNCHANGED <<ncalls, installs>>

\* handler.handler = h
Store(g) ==
  /\ gs[g].pc = "store"
  /\ handler' = [handler EXCEPT !.handler = gs[g].h]
  /\ gs' = [gs EXCEPT ![g].pc = "Unlock"]
  /\ UNCHANGED <<ncalls, installs>>

\* defer handler.mu.Unlock(), and SetErrorHandler returns (to the handler
\* that called it, when one did)
Unlock(g) ==
  /\ gs[g].pc = "Unlock"
  /\ handler' = [handler EXCEPT !.mu.writer = <<>>]
  /\ gs' = [gs EXCEPT ![g] = IF @.calls = <<>> THEN Idle
                             ELSE [@ EXCEPT !.pc = "invoked", !.h = <<>>]]
  /\ installs' = [last |-> gs[g].h,
                  earlier |-> installs.earlier \cup {installs.last}]
  /\ UNCHANGED ncalls

\* the next statement of a goroutine that is inside a call
Step(g) ==
  \/ RLock(g)
  \/ ReadHandler(g)
  \/ HandlerReturns(g)
  \/ RUnlock(g)
  \/ Lock(g)
  \/ LockReturns(g)
  \/ Store(g)
  \/ Unlock(g)

(***************************************************************************)
(* Handlers that call the sink.  The user's handler runs on the goroutine  *)
(* of Handle, inside the read lock.  It may call handler.Handle again (a   *)
(* second RLock on that goroutine, once for each invocation here) or       *)
(* SetErrorHandler (a Lock on that goroutine, which takes the statements   *)
(* of SetErrorHandler above).                                              *)
(***************************************************************************)
\* the read lock a goroutine holds for a Handle called by its handler
Nested(g) == g \o ".nested"

\* the user's handler calls handler.Handle(err)
HandlerCallsHandle(g) ==
  /\ gs[g].pc = "invoked"
  /\ Len(gs[g].calls) = 1
  /\ gs' = [gs EXCEPT ![g].pc = "nested.RLock"]
  /\ UNCHANGED <<handler, ncalls, installs>>

\* h.mu.RLock() of the nested Handle returns: no writer holds or waits
NestedRLock(g) ==
  /\ gs[g].pc = "nested.RLock"
  /\ handler.mu.writer = <<>>
  /\ handler' = [handler EXCEPT !.mu.readers = @ \cup {Nested(g)}]
  /\ gs' = [gs EXCEPT ![g].pc = "nested.read"]
  /\ UNCHANGED <<ncalls, installs>>

\* the nested Handle invokes the user's handler, which returns this time
NestedReadHandler(g) ==
  /\ gs[g].pc = "nested.read"
  /\ gs' = [gs EXCEPT ![g].pc = "nested.RUnlock",
                      ![g].calls = IF handler.handler = <<>> THEN @
                                   ELSE Append(@, [h |-> handler.handler[1],
                                                   err |-> gs[g].err])]
  /\ UNCHANGED <<handler, ncalls, installs>>

\* defer h.mu.RUnlock() of the nested Handle, which returns to the handler
NestedRUnlock(g) ==
  /\ gs[g].pc = "nested.RUnlock"
  /\ handler' = [handler EXCEPT !.mu.readers = @ \ {Nested(g)}]
  /\ gs' = [gs EXCEPT ![g].pc = "invoked"]
  /\ UNCHANGED <<ncalls, installs>>

\* the user's handler calls SetErrorHandler(h)
HandlerCallsSetErrorHandler(g, h) ==
  /\ gs[g].pc = "invoked"
  /\ gs' = [gs EXCEPT ![g].pc = "Lock", ![g].h = h]
  /\ UNCHANGED <<handler, ncalls, installs>>

\* the next statement of a goroutine whose handlers may call the sink
ReentrantStep(g) ==
  \/ Step(g)
  \/ HandlerCallsHandle(g)
  \/ NestedRLock(g)
  \/ NestedReadHandler(g)
  \/ NestedRUnlock(g)
  \/ HandlerCallsSetErrorHandler(g, <<"h2">>)

(***************************************************************************)
(* Goroutines that share a chain.  The append mutators do                  *)
(* x.Items = append(x.Items, v...) with no lock: a load of the slice       *)
(* header, a new backing array, and a store of the header, which is more   *)
(* than one word.  Two goroutines that do so on one layer race, and so     *)
(* does ToJSON when it reads the slice meanwhile.  The outcomes modelled    *)
(* are the interleavings of the loads and of the stores of the pointer and *)
(* of the length, in either order.  data is the array the pointer of the   *)
(* header points to; the layer in err shows what a reader of the header    *)
(* gets.                                                                   *)
(***************************************************************************)
Appenders == {"g1", "g2"}

\* no goroutine has been started
NoRace ==
  [on |-> FALSE, cap |-> "", data |-> <<>>,
   ths |-> [g \in Appenders |-> [pc |-> "idle", v |-> <<>>, new |-> <<>>]]]

\* what is read past the end of an array
Garbage(t) ==
  Materialize(t, <<[native |-> TRUE, Field |-> InvalidUTF8, Url |-> InvalidUTF8,
                    Description |-> InvalidUTF8]>>)[1]

\* the slice a header with this pointer and this length denotes
View(t, data, n) ==
  [k \in 1..n |-> IF k <= Len(data) THEN data[k] ELSE Garbage(t)]

\* the layer with another slice in its items field
WithSlice(layer, xs) == [layer EXCEPT !.msg = WithItems(@, xs)]

\* go x.WithViolation(v1...); go x.WithViolation(v2...) for the layer x that
\* errors.As finds (likewise WithLinks)
Go(cap, v1, v2) ==
  LET i == As(err, cap)
  IN /\ built.fn = "New"
     /\ ~race.on
     /\ ~body.done
     /\ i # 0
     /\ race' = [on |-> TRUE, cap |-> cap, data |-> ItemsOf(err[i].msg),
                 ths |-> [g \in Appenders |->
                            [pc |-> "load", v |-> IF g = "g1" THEN v1 ELSE v2,
                             new |-> <<>>]]]
     /\ UNCHANGED <<chainVars, resp, sinkVars, probe, callVars>>

\* append(x.Items, v...): the header is loaded and the new array is made
Load(g) ==
  LET i == As(err, race.cap)
  IN /\ race.on
     /\ race.ths[g].pc = "load"
     /\ race' = [race EXCEPT !.ths[g].pc = "store",
                             !.ths[g].new = ItemsOf(AppendTo(err[i], race.ths[g].v).msg)]
     /\ UNCHANGED <<chainVars, resp, sinkVars, probe, callVars>>

\* x.Items = ...: one word of the header is stored, the pointer or the length
StoreWord(g, ptrFirst) ==
  LET i == As(err, race.cap)
      t == err[i].msg.type
      th == race.ths[g]
      ptr == th.pc = "ptr" \/ (th.pc = "store" /\ ptrFirst)
  IN /\ race.on
     /\ th.pc \in {"store", "ptr", "len"}
     /\ IF ptr
        THEN /\ race' = [race EXCEPT !.data = th.new,
                                     !.ths[g].pc = IF th.pc = "store" THEN "len" ELSE "done"]
             /\ err' = [err EXCEPT ![i] = WithSlice(@, View(t, th.new, Len(ItemsOf(@.msg))))]
        ELSE /\ race' = [race EXCEPT !.ths[g].pc = IF th.pc = "store" THEN "ptr" ELSE "done"]
             /\ err' = [err EXCEPT ![i] = WithSlice(@, View(t, race.data, Len(th.new)))]
     /\ UNCHANGED <<built, supplied, nmut, body, got, resp, sinkVars, probe, callVars>>

(***************************************************************************)
(* Equality of opaque detail layers.  A client may decode one body more    *)
(* than once; every FromJSON call allocates its own messages, so a layer   *)
(* is known by the decode it comes from and its place in that chain, and   *)
(* so is the message it embeds.  An error value handed to Is is described  *)
(* by its kind, the value of the message it embeds (none for a layer that  *)
(* is no ProtoMessage) and the identity of that message.                   *)
(***************************************************************************)
\* the decodes of one body a client makes
Decodes == {1, 2}

\* layer i of the chain decode n returned
LayerRef(n, i) ==
  LET l == got.sterr[i]
  IN IF IsProtoMessage(l)
     THEN [kind |-> l.kind, msg |-> <<l.msg>>, obj |-> <<n, l.id>>]
     ELSE [kind |-> l.kind, msg |-> <<>>, obj |-> <<>>]

\* an error of the application that embeds the message of layer i of decode n
\* (a wrapper's Wrap around the message Map was given)
UserRef(n, i) == [LayerRef(n, i) EXCEPT !.kind = "mapped"]

\* a comparison of the messages by value
ArbitraryErrorIsByValue(e, target) ==
  IF target.msg # <<>>
  THEN target.msg = e.msg
  ELSE FALSE

\* (*arbitraryError).Is
ArbitraryErrorIs(e, target) ==
  IF target.obj # <<>>
  THEN target.obj = e.obj
  ELSE FALSE

NoProbe == [done |-> FALSE, e |-> <<>>, target |-> <<>>, result |-> FALSE]

\* e.Is(target) for an opaque layer e of a decoded chain
CallIs(e, target) ==
  /\ got.done
  /\ ~probe.done
  /\ probe' = [done |-> TRUE, e |-> e, target |-> target,
               result |-> ArbitraryErrorIs(e, target)]
  /\ UNCHANGED <<chainVars, resp, sinkVars, race, callVars>>

(***************************************************************************)
(* Absent arguments.  A nil error as the parent is a chain that ends in    *)
(* Nil.  A nil interface value as a payload, as an item or as a Details    *)
(* wrapper is Nil in the place of the argument; the constructors and       *)
(* mutators call a method on it (or, for a pointer of the message type,    *)
(* no method at all), and a method call on a nil interface is a runtime    *)
(* panic.                                                                  *)
(***************************************************************************)
\* the Details wrapper that is a nil interface
NilDetails == [fn |-> "nil", arg |-> Nil]

\* wrapper.Wrap(err) aborts
WrapPanics(w) ==
  CASE w.fn = "nil" -> TRUE
    [] w.fn \in {"RequestInfo", "Debug", "Cause", "LocalizedMessage", "Resource"} ->
         w.arg = Nil
    [] w.fn \in {"BadRequest", "Help", "PreconditionFailure", "QuotaFailure"} ->
         \E k \in 1..Len(w.arg) : w.arg[k] = Nil
    [] OTHER -> FALSE

\* WithDetails(err, details...) aborts
WithDetailsPanics(details) == \E k \in 1..Len(details) : WrapPanics(details[k])

(***************************************************************************)
(* The RPC interceptors.  Both hand the handler's error to translateError  *)
(* and return its result: no error (<<>>) or a status error with a code, a *)
(* message and details.                                                    *)
(***************************************************************************)
\* before any interceptor call
NoRPC == [done |-> FALSE, by |-> "", err |-> <<>>]

\* translateError(err)
translateError(e) ==
  LET sterr == ToStatus(e)
      p == GRPCStatus(sterr)
      ds == ProtoDetails(e)
      details == [k \in 1..Len(SelectSeq(ds, Marshalable)) |->
                    MarshalAny(SelectSeq(ds, Marshalable)[k])]
  IN IF p.Code = OK
     THEN <<>>
     ELSE <<[Code |-> p.Code, Message |-> p.Message, Details |-> details]>>

\* the wrappers of the errors an HTTP handler returns: details, one of which
\* does not marshal, a further status layer, and layers of the application
\* that have a StatusCode() int method
HTTPWrappers ==
  {[fn |-> "BadRequest",
    arg |-> <<[native |-> TRUE, Field |-> "field1", Description |-> "desc1"]>>],
   [fn |-> "Resource",
    arg |-> [native |-> FALSE, ResourceType |-> "table", ResourceName |-> "public.shopify",
             Owner |-> "", Description |-> InvalidUTF8]],
   [fn |-> "Code", arg |-> NotFound],
   [fn |-> "HTTPStatus", arg |-> 404],
   [fn |-> "HTTPStatus", arg |-> 418]}

HTTPArgs == Codes \X Msgs \X SeqsOf(HTTPWrappers, 0, MaxDetails)

(***************************************************************************)
(* The program: it makes a chain, wraps it, mutates layers it finds by     *)
(* errors.As, serialises the chain and rebuilds one from the bytes.        *)
(***************************************************************************)
NoBody == [done |-> FALSE, err |-> "", bytes |-> <<>>, from |-> Nil]

NoGot == [done |-> FALSE, sterr |-> Nil, calls |-> <<>>, mappers |-> <<>>]

\* the items a wrapper's constructor hands to the new layer's append mutator
SuppliedBy(w) ==
  IF w.fn \in {"BadRequest", "Help", "PreconditionFailure", "QuotaFailure"}
  THEN w.arg ELSE <<>>

Init ==
  /\ err = Nil
  /\ built = [fn |-> "none", code |-> OK, msg |-> "", details |-> <<>>]
  /\ supplied = <<>>
  /\ nmut = 0
  /\ body = NoBody
  /\ got = NoGot
  /\ resp = NoResp
  /\ handler = [mu |-> [readers |-> {}, writer |-> <<>>], handler |-> <<>>]
  /\ gs = [g \in Goroutines |-> Idle]
  /\ ncalls = 0
  /\ installs = [last |-> <<>>, earlier |-> {}]
  /\ race = NoRace
  /\ probe = NoProbe
  /\ panicked = ""
  /\ rpc = NoRPC

\* err := New(code, msg, details...)
CallNew(code, msg, details) ==
  /\ built.fn = "none"
  /\ err' = New(code, msg, details)
  /\ built' = [fn |-> "New", code |-> code, msg |-> msg, details |-> details]
  /\ supplied' = <<<<>>, <<>>>> \o [k \in 1..Len(details) |-> SuppliedBy(details[k])]
  /\ UNCHANGED <<nmut, body, got>>
  /\ UNCHANGED others

\* err := errors.New(msg), an error made outside the package
CallErrorsNew(msg) ==
  /\ built.fn = "none"
  /\ err' = ErrorsNew(msg)
  /\ built' = [fn |-> "errors.New", code |-> OK, msg |-> msg, details |-> <<>>]
  /\ supplied' = <<<<>>>>
  /\ UNCHANGED <<nmut, body, got>>
  /\ UNCHANGED others

\* err = WithDetails(err, details...)
CallWithDetails(details) ==
  /\ err # Nil
  /\ ~body.done
  /\ details # <<>>
  /\ Len(built.details) + Len(details) <= MaxDetails
  /\ err' = WithDetails(err, details)
  /\ built' = [built EXCEPT !.details = @ \o details]
  /\ supplied' = supplied \o [k \in 1..Len(details) |-> SuppliedBy(details[k])]
  /\ UNCHANGED <<nmut, body, got>>
  /\ UNCHANGED others

\* an append whose envelope shares the layer's item list: bytes written
\* earlier change with the layer
CallAppendSeenInBody(cap, items) ==
  LET i == As(err, cap)
  IN /\ i # 0
     /\ ~got.done
     /\ nmut < MaxMutations
     /\ err' = [err EXCEPT ![i].msg = WithItems(@, ItemsOf(@) \o Materialize(@.type, items))]
     /\ supplied' = [supplied EXCEPT ![err[i].id] = @ \o items]
     /\ nmut' = nmut + 1
     /\ body' = IF body.done /\ body.err = ""
                THEN [body EXCEPT !.bytes = ToJSON(err').bytes] ELSE body
     /\ UNCHANGED <<built, got>>
     /\ UNCHANGED others

\* var x Cap; if errors.As(err, &x) { x.WithViolation(items...) } (or WithLinks)
CallAppend(cap, items) ==
  LET i == As(err, cap)
  IN /\ i # 0
     /\ ~got.done
     /\ nmut < MaxMutations
     /\ err' = [err EXCEPT ![i] = AppendTo(@, items)]
     /\ supplied' = [supplied EXCEPT ![err[i].id] = @ \o items]
     /\ nmut' = nmut + 1
     /\ UNCHANGED <<built, body, got>>
     /\ UNCHANGED others

\* var x RetriableError; if errors.As(err, &x) { x.WithDelay(d) }
CallWithDelay(d) ==
  LET i == As(err, "RetriableError")
  IN /\ i # 0
     /\ ~got.done
     /\ nmut < MaxMutations
     /\ err' = [err EXCEPT ![i] = WithDelay(@, d)]
     /\ nmut' = nmut + 1
     /\ UNCHANGED <<built, supplied, body, got>>
     /\ UNCHANGED others

\* b, e := ToJSON(err)
CallToJSON ==
  /\ err # Nil
  /\ ~got.done
  /\ body.from # err
  /\ LET r == ToJSON(err)
     IN body' = [done |-> TRUE, err |-> r.err, bytes |-> r.bytes, from |-> err]
  /\ UNCHANGED <<err, built, supplied, nmut, got>>
  /\ UNCHANGED others

\* res.Body of a response another process wrote
ReceiveBody(bytes) ==
  /\ built.fn = "none"
  /\ ~body.done
  /\ body' = [done |-> TRUE, err |-> "", bytes |-> bytes, from |-> Nil]
  /\ UNCHANGED <<err, built, supplied, nmut, got>>
  /\ UNCHANGED others

\* FromJSON(bytes.NewReader(b), mappers...)
CallFromJSON(mappers) ==
  /\ body.done
  /\ body.err = ""
  /\ ~got.done
  /\ LET r == FromJSON(body.bytes, mappers)
     IN got' = [done |-> TRUE, sterr |-> r.sterr, calls |-> r.calls, mappers |-> mappers]
  /\ UNCHANGED <<err, built, supplied, nmut, body>>
  /\ UNCHANGED others

\* fn.ServeHTTP(w, r) for a handler fn that returns err
CallServeHTTP(werr) ==
  /\ ~resp.done
  /\ resp' = ServeHTTP(err, werr)
  /\ UNCHANGED <<chainVars, sinkVars, race, probe, callVars>>

\* WithDetails(nil, details...)
CallWithDetailsOnNil(details) ==
  /\ built.fn = "none"
  /\ built' = [fn |-> "WithDetails", code |-> OK, msg |-> "", details |-> details]
  /\ IF WithDetailsPanics(details)
     THEN /\ panicked' = "WithDetails"
          /\ UNCHANGED <<err, supplied>>
     ELSE /\ err' = WithDetails(Nil, details)
          /\ supplied' = [k \in 1..Len(details) |-> SuppliedBy(details[k])]
          /\ UNCHANGED panicked
  /\ UNCHANGED <<nmut, body, got, resp, sinkVars, race, probe, rpc>>

\* WithDetails(err, details...) for an error at hand and any arguments
CallWithDetailsAny(details) ==
  IF WithDetailsPanics(details)
  THEN /\ err # Nil
       /\ ~body.done
       /\ Len(built.details) + Len(details) <= MaxDetails
       /\ panicked' = "WithDetails"
       /\ UNCHANGED <<chainVars, resp, sinkVars, race, probe, rpc>>
  ELSE CallWithDetails(details)

\* x.WithViolation(items...) / x.WithLinks(items...) for any arguments
CallAppendAny(cap, items) ==
  IF \E k \in 1..Len(items) : items[k] = Nil
  THEN /\ As(err, cap) # 0
       /\ nmut < MaxMutations
       /\ panicked' = "WithViolation"
       /\ UNCHANGED <<chainVars, resp, sinkVars, race, probe, rpc>>
  ELSE CallAppend(cap, items)

\* UnaryServerInterceptor / StreamServerInterceptor around a handler that
\* returned err
CallInterceptor(by) ==
  /\ ~rpc.done
  /\ rpc' = [done |-> TRUE, by |-> by, err |-> translateError(err)]
  /\ UNCHANGED <<chainVars, resp, sinkVars, race, probe, panicked>>

\* the program that builds a chain, serialises it and rebuilds it
Next ==
  \/ /\ built.fn = "none"
     /\ \E a \in NewArgs : CallNew(a[1], a[2], a[3])
  \/ \E msg \in Msgs : CallErrorsNew(msg)
  \/ \E w \in CommonWrappers : CallWithDetails(<<w>>)
  \/ CallToJSON
  \/ \E mappers \in MapperLists : CallFromJSON(mappers)

Spec == Init /\ [][Next]_vars

\* the program that builds a chain, mutates layers it finds by errors.As,
\* before and after it serialises the chain
MutNext ==
  \/ /\ built.fn = "none"
     /\ \E a \in MutArgs : CallNew(a[1], a[2], a[3])
  \/ \E cap \in MultiItemCapabilities :
       /\ As(err, cap) # 0
       /\ \E items \in ItemLists[cap] : CallAppend(cap, items)
  \/ \E d \in Delays : CallWithDelay(d)
  \/ CallToJSON

MutSpec == Init /\ [][MutNext]_vars

\* the client: it reads a response body and rebuilds the chain from it
ClientNext ==
  \/ \E bytes \in ExternalBodies : ReceiveBody(bytes)
  \/ \E mappers \in MapperLists : CallFromJSON(mappers)

ClientSpec == Init /\ [][ClientNext]_vars

\* the server: a handler makes an error (or none) and the adapter answers
HTTPNext ==
  \/ /\ ~resp.done
     /\ \E a \in HTTPArgs : CallNew(a[1], a[2], a[3])
  \/ /\ ~resp.done
     /\ \E msg \in Msgs : CallErrorsNew(msg)
  \/ \E werr \in BOOLEAN : CallServeHTTP(werr)

HTTPSpec == Init /\ [][HTTPNext]_vars

\* goroutines that report to the sink and replace its handler
SinkNext ==
  \/ /\ \E g \in Goroutines, e \in Reports : CallHandle(g, e)
     /\ UNCHANGED <<chainVars, resp, race, probe, callVars>>
  \/ /\ \E g \in Goroutines, h \in {<<>>} \cup {<<u>> : u \in UserHandlers} :
          CallSetErrorHandler(g, h)
     /\ UNCHANGED <<chainVars, resp, race, probe, callVars>>
  \/ /\ \E g \in Goroutines : Step(g)
     /\ UNCHANGED <<chainVars, resp, race, probe, callVars>>

SinkSpec == Init /\ [][SinkNext]_vars

\* a client decodes a body and compares an opaque layer of the result with
\* the layers of that chain, with those of another decode of the same body
\* and with errors of its own that embed their messages
IsNext ==
  \/ \E bytes \in ExternalBodies : ReceiveBody(bytes)
  \/ \E mappers \in MapperLists : CallFromJSON(mappers)
  \/ /\ got.done
     /\ \E n1, n2 \in Decodes, i, j \in 1..Len(got.sterr) :
          /\ got.sterr[i].kind = "arbitraryError"
          /\ \/ CallIs(LayerRef(n1, i), LayerRef(n2, j))
             \/ /\ IsProtoMessage(got.sterr[j])
                /\ CallIs(LayerRef(n1, i), UserRef(n2, j))

IsSpec == Init /\ [][IsNext]_vars

\* the wrappers a caller hands over, absent arguments among them
NilWrappers ==
  {[fn |-> "Code", arg |-> NotFound],
   [fn |-> "BadRequest",
    arg |-> <<[native |-> TRUE, Field |-> "field1", Description |-> "desc1"]>>],
   [fn |-> "BadRequest", arg |-> <<Nil>>],
   [fn |-> "RequestInfo",
    arg |-> [native |-> TRUE, RequestId |-> "123456789", ServingData |-> ""]],
   [fn |-> "RequestInfo", arg |-> Nil],
   NilDetails}

\* a caller that has no error, or one of its own, wraps it, appends to a
\* layer and serialises, with arguments that may be absent
NilNext ==
  \/ /\ panicked = ""
     /\ \E details \in SeqsOf(NilWrappers, 1, MaxDetails) : CallWithDetailsOnNil(details)
  \/ /\ panicked = ""
     /\ \E msg \in Msgs : CallErrorsNew(msg)
  \/ /\ panicked = ""
     /\ \E w \in NilWrappers : CallWithDetailsAny(<<w>>)
  \/ /\ panicked = ""
     /\ \E items \in SeqsOf(FieldViolationInputs \cup {Nil}, 1, 1) :
          CallAppendAny("BadRequestError", items)
  \/ /\ panicked = ""
     /\ CallToJSON

NilSpec == Init /\ [][NilNext]_vars

\* an RPC handler returns no error, or makes one, and the interceptor
\* translates what it returned
RPCNext ==
  \/ /\ ~rpc.done
     /\ \E a \in HTTPArgs : CallNew(a[1], a[2], a[3])
  \/ /\ ~rpc.done
     /\ \E msg \in Msgs : CallErrorsNew(msg)
  \/ \E by \in {"UnaryServerInterceptor", "StreamServerInterceptor"} : CallInterceptor(by)

RPCSpec == Init /\ [][RPCNext]_vars

\* the chains the goroutines share
RaceArgs ==
  {InvalidArgument} \X {"test error"}
    \X {<<[fn |-> "BadRequest", arg |-> <<>>]>>,
        <<[fn |-> "BadRequest",
           arg |-> <<[native |-> TRUE, Field |-> "field0", Description |-> "desc0"]>>]>>,
        <<[fn |-> "Help",
           arg |-> <<[native |-> TRUE, Url |-> "url0", Description |-> "desc0"]>>]>>}

\* a chain is built, two goroutines append to one of its layers and ToJSON
\* serialises it at any time
RaceNext ==
  \/ \E a \in RaceArgs : CallNew(a[1], a[2], a[3])
  \/ \E cap \in {"BadRequestError", "HelpfulError"} :
       \E v1, v2 \in ItemLists[cap] : Go(cap, v1, v2)
  \/ \E g \in Appenders : Load(g)
  \/ \E g \in Appenders, ptrFirst \in BOOLEAN : StoreWord(g, ptrFirst)
  \/ /\ race.on
     /\ CallToJSON

RaceSpec == Init /\ [][RaceNext]_vars

\* the scheduler runs every goroutine that can run, and the handlers of the
\* application return
SinkFairness ==
  \A g \in Goroutines : WF_vars(Step(g) /\ UNCHANGED <<chainVars, resp, race, probe, callVars>>)

SinkFairSpec == SinkSpec /\ SinkFairness

\* the goroutines of a program whose handlers call the sink
ReentrantNext ==
  \/ /\ \E g \in Goroutines : CallHandle(g, "failed to encode error to JSON")
     /\ UNCHANGED <<chainVars, resp, race, probe, callVars>>
  \/ /\ \E g \in Goroutines, h \in {<<>>} \cup {<<u>> : u \in UserHandlers} :
          CallSetErrorHandler(g, h)
     /\ UNCHANGED <<chainVars, resp, race, probe, callVars>>
  \/ /\ \E g \in Goroutines : ReentrantStep(g)
     /\ UNCHANGED <<chainVars, resp, race, probe, callVars>>

\* the scheduler runs every goroutine that can run
ReentrantFairness ==
  \A g \in Goroutines :
    WF_vars(ReentrantStep(g) /\ UNCHANGED <<chainVars, resp, race, probe, callVars>>)

ReentrantFairSpec == Init /\ [][ReentrantNext]_vars /\ ReentrantFairness

(***************************************************************************)
(* Properties.  Helpers first: what the program handed in and what a chain *)
(* holds, read off the state without the operators under test.             *)
(***************************************************************************)
Reverse(s) == [i \in 1..Len(s) |-> s[Len(s) + 1 - i]]

RECURSIVE Flatten(_)
Flatten(ss) == IF ss = <<>> THEN <<>> ELSE Head(ss) \o Flatten(Tail(ss))

\* a wrapper of one of the ten detail kinds (not Code)
IsDetailWrapper(w) == w.fn # "Code"

DetailsOnly(ws) == SelectSeq(ws, IsDetailWrapper)

\* the layers of e that carry a detail payload, outer to inner, as <<kind, payload>>
Payloads(e) ==
  LET ds == SelectSeq(e, IsProtoMessage)
  IN [k \in 1..Len(ds) |-> <<ds[k].kind, ds[k].msg>>]

\* the positions of the status layers of e
StatusLayers(e) == {i \in 1..Len(e) : e[i].kind = "errCodeError"}

\* the positions of the layers of e that satisfy cap
Implementing(e, cap) == {i \in 1..Len(e) : CapabilityOf(e[i].kind) = cap}

DetailCapabilities == Capabilities \ {"statusError"}

MultiItemKinds == {LayerKind(t) : t \in MultiItemTypes}

\* what the accessors of a detail layer return
Accessors(layer) ==
  CASE layer.kind \in MultiItemKinds -> GetItems(layer)
    [] layer.kind = "errRetryInfo" -> <<GetRetryDelay(layer)>>
    [] OTHER -> layer.msg

\* e holds at most one layer of each detail kind
AtMostOnePerKind(e) ==
  \A i, j \in 1..Len(e) :
    (i # j /\ IsProtoMessage(e[i]) /\ IsProtoMessage(e[j])) => e[i].kind # e[j].kind

\* nothing in e stops the codecs: every payload marshals and the text is valid
Encodable(e) ==
  /\ \A i \in 1..Len(e) : IsProtoMessage(e[i]) => Marshalable(e[i].msg)
  /\ ValidText(e)

\* the message type named by the "@type" of a JSON detail
TypeOf(j) == CHOOSE t \in RegisteredTypes : j.atType = TypeURL(t)

\* the Map calls FromJSON owes: per detail in list order, every mapper in the
\* order supplied
ExpectedCalls(types, mappers) ==
  Flatten([k \in 1..Len(types) |->
             [j \in 1..Len(mappers) |-> <<types[k], mappers[j].name>>]])

\* the layers FromJSON owes above the status layer, outer to inner: per detail
\* from the last entry to the first, the built-in layer and then the layers of
\* the mappers that matched, last supplied first
ExpectedLayers(types, mappers) ==
  Flatten([k \in 1..Len(types) |->
             LET t == types[Len(types) + 1 - k]
                 Matches(m) == t \in m.types
                 ms == SelectSeq(mappers, Matches)
             IN <<<<"builtin", t>>>>
                  \o [j \in 1..Len(ms) |-> <<"mapped", ms[Len(ms) + 1 - j].name>>]])

\* the layers of e, outer to inner, by what made them
Tags(e) ==
  [i \in 1..Len(e) |->
     CASE e[i].kind = "mapped" -> <<"mapped", e[i].by>>
       [] IsProtoMessage(e[i]) -> <<"builtin", e[i].msg.type>>
       [] OTHER -> <<"base", e[i].kind>>]

\* C1: for a chain built as New(code, msg, d1, ..., dN), the envelope ToJSON
\* writes lists exactly the N details, outermost first: entry k is the
\* payload of d(N+1-k), so entry 1 is dN and entry N is d1.
C1_DetailsOuterToInner ==
  (built.fn = "New" /\ nmut = 0 /\ body.done /\ body.err = "" /\ body.from = err)
    => LET ds == DetailsOnly(built.details)
           out == body.bytes[1].details
       IN /\ Len(out) = Len(ds)
          /\ \A k \in 1..Len(ds) :
               out[k] = MarshalAny(Head(Wrap(ds[Len(ds) + 1 - k], Nil)).msg)

\* New(InvalidArgument, "test error", Help(...), BadRequest(...)) serialised:
\* details [BadRequest, Help]
C1_Witness ==
  /\ built.fn = "New" /\ body.done /\ body.err = "" /\ body.from = err
  /\ Len(built.details) = 2
  /\ built.details[1].fn = "Help" /\ built.details[2].fn = "BadRequest"
  /\ Len(body.bytes[1].details) = 2
  /\ body.bytes[1].details[1].atType = TypeURL(TBadRequest)
  /\ body.bytes[1].details[2].atType = TypeURL(THelp)

\* C2: FromJSON(ToJSON(chain)) with no mappers holds the detail layers of
\* chain in the reverse order: [D1, ..., Dn] outer to inner becomes
\* [Dn, ..., D1] outer to inner, each with the payload it had.
C2_RoundTripReversesDetails ==
  (got.done /\ got.mappers = <<>> /\ body.from # Nil)
    => Payloads(got.sterr) = Reverse(Payloads(body.from))

\* a round trip of a chain with two detail layers of different kinds
C2_Witness ==
  /\ got.done /\ got.mappers = <<>> /\ body.from # Nil
  /\ Len(Payloads(body.from)) = 2
  /\ Payloads(body.from)[1][1] # Payloads(body.from)[2][1]
  /\ Payloads(got.sterr)[1] = Payloads(body.from)[2]
  /\ Payloads(got.sterr) # Payloads(body.from)

\* C3: for a code C that has a sentinel, any message and any list of built-in
\* details, the chain FromJSON returns for ToJSON(New(C, msg, details...))
\* satisfies errors.Is against the sentinel of C and against no other sentinel.
C3_RoundTripKeepsClassification ==
  (/\ got.done /\ built.fn = "New" /\ nmut = 0 /\ body.from = err
   /\ built.code \in SentinelCodes
   /\ DetailsOnly(built.details) = built.details)
    => \A c \in SentinelCodes : Is(got.sterr, Sentinel(c)) <=> (c = built.code)

\* a round trip of New(ResourceExhausted, msg, two details)
C3_Witness ==
  /\ got.done /\ built.fn = "New" /\ body.from = err
  /\ built.code = ResourceExhausted
  /\ Len(built.details) = 2 /\ DetailsOnly(built.details) = built.details
  /\ Is(got.sterr, Sentinel(ResourceExhausted))
  /\ ~Is(got.sterr, Sentinel(Unknown))

\* C4: for a chain with at most one layer of each detail kind, after
\* FromJSON(ToJSON(chain)) errors.As finds every kind the chain held and the
\* accessors of the layer found return what they returned on the original:
\* the same items in the same order, the same fields, the same retry delay.
C4_RoundTripKeepsFacts ==
  (got.done /\ got.mappers = <<>> /\ body.from # Nil /\ AtMostOnePerKind(body.from))
    => \A cap \in DetailCapabilities :
         LET i == As(body.from, cap)
             j == As(got.sterr, cap)
         IN i # 0 => (j # 0 /\ Accessors(got.sterr[j]) = Accessors(body.from[i]))

\* a round trip of a chain with a negative sub-second retry delay and a
\* BadRequest of two violations
C4_Witness ==
  /\ got.done /\ got.mappers = <<>> /\ body.from # Nil /\ AtMostOnePerKind(body.from)
  /\ As(body.from, "RetriableError") # 0
  /\ As(body.from, "BadRequestError") # 0
  /\ GetRetryDelay(got.sterr[As(got.sterr, "RetriableError")]) = 0 - 1
  /\ Len(GetItems(got.sterr[As(got.sterr, "BadRequestError")])) = 2

\* C5: for every code C, message m and list of detail wrappers,
\* errors.Is(New(C, m, details...), sentinel of C') holds exactly when C' = C,
\* however many detail layers lie outside the status layer.
C5_NewClassifiesToItsCode ==
  (built.fn = "New" /\ DetailsOnly(built.details) = built.details)
    => \A c \in SentinelCodes : Is(err, Sentinel(c)) <=> (c = built.code)

\* New(DataLoss, m, two details): the status layer lies under two detail layers
C5_Witness ==
  /\ built.fn = "New" /\ built.code = DataLoss
  /\ Len(built.details) = 2 /\ DetailsOnly(built.details) = built.details
  /\ err[3].kind = "errCodeError"
  /\ Is(err, Sentinel(DataLoss))
  /\ ~Is(err, Sentinel(Internal))

\* C6: for any chain and any capability, errors.As answers with the outermost
\* layer that satisfies the capability (none when no layer does): of several
\* layers of one kind it is the one wrapped last, and layers of other kinds
\* above it do not stop the walk.
C6_ProbeReturnsOutermost ==
  \A e \in {err, got.sterr} : \A cap \in Capabilities :
    LET M == Implementing(e, cap)
        i == As(e, cap)
    IN IF M = {} THEN i = 0
       ELSE /\ i \in M
            /\ \A j \in M : i <= j /\ e[i].id >= e[j].id

\* two status layers under a detail layer: the probe passes the head and
\* answers with the status layer wrapped last
C6_Witness ==
  /\ Cardinality(Implementing(err, "statusError")) = 2
  /\ As(err, "statusError") = 2
  /\ IsProtoMessage(err[1])
  /\ err[2].Code = NotFound

\* C7: when a chain holds status layers, ToJSON uses the outermost one: the
\* envelope's code is that layer's code and its message is the code's name,
\* ": ", and the display text of that layer's parent; detail layers outside
\* it and status layers inside it change neither.
C7_OutermostStatusLayerWins ==
  (body.done /\ body.err = "" /\ StatusLayers(body.from) # {})
    => LET S == StatusLayers(body.from)
           i == CHOOSE i \in S : \A j \in S : i <= j
           parent == SubSeq(body.from, i + 1, Len(body.from))
       IN /\ OrZero(body.bytes[1].code, 0) = body.from[i].Code
          /\ OrZero(body.bytes[1].message, "")
               = CodeString(body.from[i].Code) \o ": " \o DisplayText(parent)

\* New(InvalidArgument, "test error", Code(NotFound), a detail) serialised
C7_Witness ==
  /\ body.done /\ body.err = ""
  /\ Cardinality(StatusLayers(body.from)) = 2
  /\ IsProtoMessage(body.from[1])
  /\ body.from[2].Code = NotFound /\ body.from[3].Code = InvalidArgument
  /\ body.bytes[1].code = <<NotFound>>
  /\ body.bytes[1].message = <<"NotFound: InvalidArgument: test error">>

\* C8: after any sequence of append calls on a multi-item layer, its accessor
\* returns the concatenation of every item list supplied to it, in call order
\* and argument order: nothing is replaced, reordered or dropped as a duplicate.
C8_AppendConcatenates ==
  \A i \in 1..Len(err) :
    err[i].kind \in MultiItemKinds
      => GetItems(err[i]) = Materialize(err[i].msg.type, supplied[err[i].id])

\* [v1, v2] then [v1] appended to one layer: three items, v1 twice
C8_Witness ==
  /\ nmut = 2
  /\ \E i \in 1..Len(err) :
       /\ err[i].kind = "errBadRequest"
       /\ Len(GetItems(err[i])) = 3
       /\ GetItems(err[i])[1] = GetItems(err[i])[3]
       /\ GetItems(err[i])[1] # GetItems(err[i])[2]

\* C9: for a non-nil chain without a status layer whose payloads and text the
\* codecs accept, ToJSON succeeds: the envelope has code Unknown (2), the
\* message "Unknown: " and the chain's display text, and one detail for every
\* detail layer of the chain, walked from its head.
C9_NoStatusLayerIsUnknown ==
  (/\ body.done /\ body.from # Nil
   /\ StatusLayers(body.from) = {}
   /\ Encodable(body.from))
    => /\ body.err = ""
       /\ body.bytes[1].code = <<Unknown>>
       /\ body.bytes[1].message = <<"Unknown: " \o DisplayText(body.from)>>
       /\ body.bytes[1].details
            = [k \in 1..Len(Payloads(body.from)) |-> MarshalAny(Payloads(body.from)[k][2])]

\* errors.New("test error") under two detail layers, serialised
C9_Witness ==
  /\ body.done /\ body.err = ""
  /\ built.fn = "errors.New"
  /\ StatusLayers(body.from) = {}
  /\ Len(Payloads(body.from)) = 2
  /\ body.bytes[1].message = <<"Unknown: test error">>
  /\ Len(body.bytes[1].details) = 2

\* C10: FromJSON consults, for every detail in list order, every mapper once
\* in the order supplied and applies each wrapper returned; then the built-in
\* dispatch wraps too.  A detail matched by k mappers adds k+1 layers: outer
\* to inner the built-in layer, then the mappers' layers, last supplied first.
C10_TwoStageDispatch ==
  (got.done /\ body.from # Nil)
    => LET ds == body.bytes[1].details
           types == [k \in 1..Len(ds) |-> TypeOf(ds[k])]
       IN /\ got.calls = ExpectedCalls(types, got.mappers)
          /\ Tags(got.sterr)
               = ExpectedLayers(types, got.mappers)
                   \o <<<<"base", "errCodeError">>, <<"base", "errorString">>>>

\* a BadRequest detail that both of two mappers match: three layers for it
C10_Witness ==
  /\ got.done /\ body.from # Nil
  /\ Len(got.mappers) = 2
  /\ Len(body.bytes[1].details) = 2
  /\ TypeOf(body.bytes[1].details[2]) = TBadRequest
  /\ got.sterr[1].kind = "errBadRequest"
  /\ got.sterr[2].kind = "mapped" /\ got.sterr[2].by = got.mappers[2].name
  /\ got.sterr[3].kind = "mapped" /\ got.sterr[3].by = got.mappers[1].name
  /\ Len(got.calls) = 4

\* the "@type" of j names none of the ten built-in kinds
Unrecognized(j) == \A t \in BuiltinTypes : j.atType # TypeURL(t)

\* the payload of j lacks no required field
Complete(j) == j.atType = TypeURL(TStrict) => j.name # <<>>

\* C11 (as amended): for every envelope whose entries all decode, FromJSON
\* succeeds, and an entry whose type is registered but is none of the ten
\* built-in kinds adds an opaque layer (arbitraryError) that carries the
\* entry's decoded payload under its type key; the rebuilt chain holds one
\* payload layer per entry.  (An entry whose type key the process cannot
\* resolve is a decode failure.)
C11_UnrecognizedKindKept ==
  (/\ got.done /\ body.from = Nil /\ body.bytes # <<>>
   /\ \A k \in 1..Len(body.bytes[1].details) : Decodable(body.bytes[1].details[k]))
    => LET ds == body.bytes[1].details
           ps == Payloads(got.sterr)
       IN /\ got.sterr # DecodeError
          /\ Len(ps) = Len(ds)
          /\ \A k \in 1..Len(ds) :
               LET layer == ps[Len(ds) + 1 - k]
               IN /\ MarshalAny(layer[2]) = ds[k]
                  /\ TypeURL(layer[2].type) = ds[k].atType
                  /\ Unrecognized(ds[k]) <=> (layer[1] = "arbitraryError")

\* an envelope with a built-in entry and a registered entry of another kind,
\* rebuilt: the second is held by an opaque layer
C11_Witness ==
  /\ got.done /\ body.from = Nil /\ body.bytes # <<>>
  /\ Len(body.bytes[1].details) = 2
  /\ body.bytes[1].details[1].atType = TypeURL(TBadRequest)
  /\ body.bytes[1].details[2].atType = TypeURL(TDuration)
  /\ got.sterr[1].kind = "arbitraryError"
  /\ got.sterr[1].msg = [type |-> TDuration, Seconds |-> 60, Nanos |-> 0]
  /\ got.sterr[2].kind = "errBadRequest"

\* C11 as stated: for every envelope, whatever the type keys of its entries
\* that match no built-in kind, FromJSON succeeds and the rebuilt chain holds
\* one payload layer per entry.
C11_AsStated ==
  (/\ got.done /\ body.from = Nil /\ body.bytes # <<>>
   /\ \A k \in 1..Len(body.bytes[1].details) : Complete(body.bytes[1].details[k]))
    => /\ got.sterr # DecodeError
       /\ Len(Payloads(got.sterr)) = Len(body.bytes[1].details)

\* the entries of the body that FromJSON cannot decode
Undecodable(bytes) ==
  {k \in 1..Len(bytes[1].details) : ~Decodable(bytes[1].details[k])}

\* C12: when the body is no envelope or some entry of it cannot be decoded,
\* FromJSON returns the decode error and nothing else: no layer built from
\* the entries before the failing one is part of what it returns.
C12_DecodeFailureIsHard ==
  (got.done /\ body.from = Nil /\ (body.bytes = <<>> \/ Undecodable(body.bytes) # {}))
    => got.sterr = DecodeError

\* the second entry fails to decode after the first was mapped and wrapped
C12_Witness ==
  /\ got.done /\ body.from = Nil /\ body.bytes # <<>>
  /\ Undecodable(body.bytes) = {2}
  /\ Resolvable(body.bytes[1].details[2])
  /\ body.bytes[1].details[1].atType = TypeURL(TBadRequest)
  /\ Len(got.mappers) = 2
  /\ Len(got.calls) = 2
  /\ got.sterr = DecodeError

\* C13: when ToJSON fails for the handler's error, ServeHTTP writes status
\* 500, whatever StatusCode() a layer of the chain has, encodes the fixed
\* fallback body {"status": 13, "message": "Internal Server Error: failed to
\* encode error response"} and nothing of an envelope, and reports the
\* failure to the sink.
C13_EncodeFailureFallback ==
  (resp.done /\ err # Nil /\ ToJSON(err).err # "")
    => /\ resp.status = <<500>>
       /\ resp.body = <<[status |-> 13,
                         message |-> "Internal Server Error: failed to encode error response"]>>
       /\ resp.reports # <<>>
       /\ resp.reports[1] = "failed to encode error to JSON"

\* a chain with a StatusCode() layer and a detail that does not marshal,
\* answered with 500 and the fallback body
C13_Witness ==
  /\ resp.done /\ err # Nil
  /\ As(err, "hasStatusCode") # 0
  /\ err[As(err, "hasStatusCode")].code = 404
  /\ As(err, "ResourceInfoError") # 0
  /\ resp.status = <<500>>
  /\ resp.body = <<FallbackBody>>
  /\ Len(resp.reports) = 1

\* the HTTP status of a status code (runtime.HTTPStatusFromCode of
\* grpc-gateway, which earlier revisions of the adapter called)
HTTPStatusFromCode(c) ==
  CASE c = OK -> 200
    [] c = Canceled -> 499
    [] c = InvalidArgument -> 400
    [] c = DeadlineExceeded -> 504
    [] c = NotFound -> 404
    [] c = AlreadyExists -> 409
    [] c = PermissionDenied -> 403
    [] c = ResourceExhausted -> 429
    [] c = FailedPrecondition -> 400
    [] c = Aborted -> 409
    [] c = OutOfRange -> 400
    [] c = Unimplemented -> 501
    [] c = Unavailable -> 503
    [] c = Unauthenticated -> 401
    [] OTHER -> 500

\* C14 as stated: when the handler's error serialises, ServeHTTP writes the
\* HTTP status resolved from the chain's classified code, or the StatusCode()
\* of a layer that has one, sets Content-Type application/json and writes the
\* envelope; when the handler returns nil it writes nothing.
C14_StatusFromClassifiedCode ==
  resp.done =>
    IF err = Nil
    THEN resp.contentType = <<>> /\ resp.status = <<>> /\ resp.body = <<>>
    ELSE ToJSON(err).err = "" =>
           /\ resp.contentType = <<"application/json">>
           /\ resp.body = ToJSON(err).bytes
           /\ resp.status =
                IF As(err, "hasStatusCode") # 0
                THEN <<err[As(err, "hasStatusCode")].code>>
                ELSE <<HTTPStatusFromCode(OrZero(ToJSON(err).bytes[1].code, 0))>>

\* New(NotFound, "test error") returned by the handler and answered
C14_Witness ==
  /\ resp.done /\ built.fn = "New" /\ built.code = NotFound /\ built.details = <<>>
  /\ built.msg = "test error"
  /\ resp.body = ToJSON(err).bytes
  /\ resp.status = <<500>>

\* C15: a report is forwarded exactly once, with its error, to the handler
\* installed by the most recent SetErrorHandler call and to no other handler;
\* when no handler was installed, or the last one installed is nil, the
\* report invokes nothing.
C15_DeliveredToLatestHandler ==
  \A g \in Goroutines :
    gs[g].pc \in {"invoked", "RUnlock"} =>
      gs[g].calls = IF installs.last = <<>>
                    THEN <<>>
                    ELSE <<[h |-> installs.last[1], err |-> gs[g].err]>>

\* h1 was installed, then h2, and the report made after that went to h2 alone
C15_Witness ==
  /\ installs = [last |-> <<"h2">>, earlier |-> {<<>>, <<"h1">>}]
  /\ gs["g1"].pc = "RUnlock"
  /\ gs["g1"].calls = <<[h |-> "h2", err |-> "failed to encode error to JSON"]>>

\* the goroutines inside the read lock, the handler invocation included
InRLock(g) == gs[g].pc \in {"read", "invoked", "RUnlock"}

\* the goroutines inside the write lock
InLock(g) == gs[g].pc \in {"store", "Unlock"}

\* no goroutine is inside a call and the lock is free for readers and writers
Quiescent ==
  /\ \A g \in Goroutines : gs[g].pc = "idle"
  /\ handler.mu.readers = {}
  /\ handler.mu.writer = <<>>

\* C16: a report that asks for the read lock is let in whenever no
\* SetErrorHandler call holds or waits for the lock, however many reports are
\* inside; and with handlers that return and do not call the sink, every
\* call of Handle and SetErrorHandler returns and the lock ends released.
C16_SinkProgress ==
  /\ [](\A g \in Goroutines :
          (gs[g].pc = "RLock" /\ handler.mu.writer = <<>>)
            => ENABLED (RLock(g) /\ UNCHANGED <<chainVars, resp, race, probe, callVars>>))
  /\ \A g \in Goroutines : (gs[g].pc # "idle") ~> (gs[g].pc = "idle")
  /\ []<>Quiescent

\* two reports are inside their handler invocations together
C16_Witness ==
  /\ gs["g1"].pc = "invoked"
  /\ gs["g2"].pc = "invoked"
  /\ handler.mu.readers = {"g1", "g2"}

\* C17: while a SetErrorHandler call is between Lock and Unlock no report is
\* between RLock and RUnlock (its handler invocation included) and no other
\* SetErrorHandler call is; the handler field a report finds, and the
\* handler it invokes, are the one installed when it got the read lock.
C17_SinkMutualExclusion ==
  \A g \in Goroutines :
    /\ InLock(g) =>
         /\ handler.mu.readers = {}
         /\ \A g2 \in Goroutines \ {g} : ~InLock(g2) /\ ~InRLock(g2)
    /\ InRLock(g) => handler.handler = gs[g].seen
    /\ gs[g].pc = "invoked" => gs[g].seen = <<gs[g].calls[1].h>>

\* a SetErrorHandler call is about to store while a report waits for the
\* read lock and another SetErrorHandler call waits for the write lock
C17_Witness ==
  /\ gs["g1"].pc = "store"
  /\ gs["g2"].pc = "RLock"
  /\ gs["g3"].pc = "Lock"
  /\ handler.handler # gs["g1"].h

\* the items field of the layer the goroutines append to
SharedItems == ItemsOf(err[As(err, race.cap)].msg)

\* the items the layer had when the goroutines were started
ItemsAtStart ==
  Materialize(err[As(err, race.cap)].msg.type, built.details[1].arg)

\* the items an append of goroutine g adds
Added(g) == Materialize(err[As(err, race.cap)].msg.type, race.ths[g].v)

\* the item lists before and after each whole append
WholeAppends ==
  {ItemsAtStart,
   ItemsAtStart \o Added("g1"),
   ItemsAtStart \o Added("g2"),
   ItemsAtStart \o Added("g1") \o Added("g2"),
   ItemsAtStart \o Added("g2") \o Added("g1")}

\* C18 as stated: when two goroutines have appended to one layer without a
\* lock the layer holds the items of both appends, and an envelope that
\* ToJSON made meanwhile shows the list before or after each whole append.
C18_NoLostUpdateNoTornState ==
  race.on =>
    /\ (\A g \in Appenders : race.ths[g].pc = "done") =>
         SharedItems \in {ItemsAtStart \o Added("g1") \o Added("g2"),
                          ItemsAtStart \o Added("g2") \o Added("g1")}
    /\ body.done =>
         /\ body.err = ""
         /\ ItemsOf(UnmarshalNew(body.bytes[1].details[1])) \in WholeAppends

\* both appends returned and the items of g1 are not in the layer
C18_Witness ==
  /\ race.on
  /\ \A g \in Appenders : race.ths[g].pc = "done"
  /\ SharedItems = ItemsAtStart \o Added("g2")
  /\ Added("g1") # Added("g2")

\* C19: an opaque detail layer's Is is true only for a target that embeds a
\* message and embeds the very message the layer embeds; it is false for
\* a target from another decode of the same body, whose message has the same
\* value, and for a target that embeds no message.
C19_OpaqueIsIdentityOnly ==
  probe.done =>
    /\ probe.result <=> (probe.target.msg # <<>> /\ probe.target.obj = probe.e.obj)
    /\ (probe.target.msg # <<>> /\ probe.target.obj[1] # probe.e.obj[1]) => ~probe.result
    /\ probe.target.msg = <<>> => ~probe.result
    /\ (probe.target = probe.e \/ probe.target = [probe.e EXCEPT !.kind = "mapped"])
         => probe.result

\* a layer compared with its counterpart of another decode: the messages are
\* equal by value and Is is false
C19_Witness ==
  /\ probe.done
  /\ probe.e.kind = "arbitraryError"
  /\ probe.target.kind = "arbitraryError"
  /\ probe.target.msg = probe.e.msg
  /\ probe.target.obj # probe.e.obj
  /\ ~probe.result

\* C20 (amended): for each of the 16 codes 1..16 there is exactly one
\* pre-built sentinel, whose cause is the fixed placeholder, and a chain that
\* New classified with that code is matched by that sentinel and no other;
\* for code 0 (OK) there is no sentinel, and no sentinel matches.
C20_SentinelPerErrorCode ==
  (built.fn = "New" /\ DetailsOnly(built.details) = built.details) =>
    LET matching == {s \in Sentinels : Is(err, s)}
    IN /\ \A s \in Sentinels : Unwrap(s) = errUnknown /\ Head(s).kind = "errCodeError"
       /\ {Head(s).Code : s \in Sentinels} = 1..16
       /\ Cardinality(Sentinels) = 16
       /\ built.code # OK =>
            /\ Cardinality(matching) = 1
            /\ \A s \in matching : Head(s).Code = built.code
       /\ built.code = OK => matching = {}

\* New(Aborted, ...) under two detail layers, matched by the sentinel of
\* Aborted
C20_Witness ==
  /\ built.fn = "New" /\ built.code = Aborted
  /\ Len(built.details) = 2 /\ DetailsOnly(built.details) = built.details
  /\ Is(err, Sentinel(Aborted))
  /\ Sentinel(Aborted) \in Sentinels

\* C20 as stated: whatever code of the 17 a chain is classified with, there
\* is a pre-built sentinel of that code with the placeholder cause.
C20_SentinelForEveryCode ==
  built.fn = "New" =>
    \E s \in Sentinels : Head(s).Code = built.code /\ Unwrap(s) = errUnknown

\* the code of the outermost status layer of a chain, none when it has none
ClassifiedCode(e) ==
  IF As(e, "statusError") = 0 THEN <<>> ELSE <<e[As(e, "statusError")].Code>>

\* C21 as stated: the chain FromJSON returns for an envelope, whatever
\* integer its code field holds, is classified with one code of the closed
\* set of 17, and so is the envelope a later ToJSON writes for it.
C21_CodeInClosedSet ==
  (got.done /\ got.sterr # DecodeError) =>
    /\ ClassifiedCode(got.sterr) # <<>>
    /\ ClassifiedCode(got.sterr)[1] \in Codes
    /\ ToJSON(got.sterr).err = "" =>
         OrZero(ToJSON(got.sterr).bytes[1].code, 0) \in Codes

\* an envelope with code 99 was decoded; the chain is classified 99 and
\* ToJSON writes 99
C21_Witness ==
  /\ got.done /\ got.sterr # DecodeError
  /\ body.bytes[1].code = <<99>>
  /\ ClassifiedCode(got.sterr) = <<99>>
  /\ ToJSON(got.sterr).bytes[1].code = <<99>>
  /\ ToJSON(got.sterr).bytes[1].message = <<"Code(N): no such user">>

\* C22 as stated: a status layer always has a parent: the placeholder
\* "unknown error" when Code(c) wrapped no error, the error supplied otherwise.
C22_StatusLayerHasParent ==
  \A i \in 1..Len(err) :
    err[i].kind = "errCodeError" =>
      LET parent == Unwrap(SubSeq(err, i, Len(err)))
      IN /\ parent # Nil
         /\ (built.fn = "WithDetails" /\ i = Len(err)) => parent = errUnknown
         /\ (built.fn = "errors.New") => parent[Len(parent)] = ErrorsNew(built.msg)[1]

\* WithDetails(nil, Code(NotFound)): one status layer, no parent, and a text
\* that shows the nil
C22_Witness ==
  /\ built.fn = "WithDetails"
  /\ built.details = <<[fn |-> "Code", arg |-> NotFound]>>
  /\ Len(err) = 1
  /\ Unwrap(err) = Nil
  /\ DisplayText(err) = "NotFound: %!s(<nil>)"

\* C23 as stated: no constructor, mutator or ToJSON call aborts, whatever
\* is absent among its arguments: the parent, a payload, an item of a list.
C23_NoCallPanics == panicked = ""

\* errors.New("test error") wrapped with RequestInfo(nil): WithRequestInfo
\* calls a method of the nil interface and the call aborts
C23_Witness ==
  /\ built.fn = "errors.New" /\ built.msg = "test error"
  /\ err = ErrorsNew("test error")
  /\ panicked = "WithDetails"

\* C24 as stated: when the handler returned no error the interceptor returns
\* no error; when it returned a chain the interceptor returns a status error
\* whose code is the chain's classified code (Unknown for a chain without a
\* status layer).
C24_TerminalErrorOnlyOnFailure ==
  rpc.done =>
    IF err = Nil
    THEN rpc.err = <<>>
    ELSE /\ rpc.err # <<>>
         /\ rpc.err[1].Code = OrZero(ClassifiedCode(err), Unknown)

\* the handler returned nil and the interceptor returned a status error of
\* code Unknown
C24_Witness ==
  /\ rpc.done /\ rpc.by = "UnaryServerInterceptor"
  /\ err = Nil /\ built.fn = "none"
  /\ rpc.err = <<[Code |-> Unknown, Message |-> "Unknown: %!s(<nil>)", Details |-> <<>>]>>

\* C25: a call of WithViolation, WithLinks or WithDelay on a layer of a chain
\* leaves the number, the order and the identity of the layers as they were
\* (so every parent link, and the layer the call returns), and the payload
\* of every layer but the one it was called on.
C25_MutatorsAreLocal ==
  [][nmut' # nmut =>
       /\ Len(err') = Len(err)
       /\ \A i \in 1..Len(err) : err'[i].kind = err[i].kind
       /\ Cardinality({i \in 1..Len(err) : err'[i] # err[i]}) <= 1
       /\ \A i \in 1..Len(err) :
            err'[i] # err[i] =>
              /\ IsProtoMessage(err[i])
              /\ err'[i].id = err[i].id
              /\ i = As(err, CapabilityOf(err[i].kind))]_vars

\* an append to the BadRequest layer that lies under a RetryInfo layer and
\* above the status layer
C25_Witness ==
  /\ nmut = 1
  /\ Len(err) = 4
  /\ err[1].kind = "errRetryInfo" /\ err[1].id = 4
  /\ err[2].kind = "errBadRequest" /\ err[2].id = 3
  /\ built.details[1] = [fn |-> "BadRequest", arg |-> <<>>]
  /\ Len(GetItems(err[2])) = 2
  /\ err[3].kind = "errCodeError"

\* the position, among the details of an envelope of chain e, of layer i
DetailIndex(e, i) == Cardinality({j \in 1..i : IsProtoMessage(e[j])})

\* C26: ToJSON writes the chain as it is when called. Every item supplied to
\* a multi-item layer before the call (by the wrapper or by an append on the
\* layer errors.As found) is in the envelope; an append after the call leaves
\* the bytes already written as they were and is in the next envelope; ToJSON
\* leaves the chain unchanged, and a second call on the unchanged chain gives
\* the same envelope.
C26_ToJSONIsSnapshot ==
  /\ [][/\ body' # body =>
             /\ err' = err /\ supplied' = supplied
             /\ body'.from = err
             /\ body'.err = "" =>
                  \A i \in 1..Len(err) :
                    err[i].kind \in MultiItemKinds =>
                      body'.bytes[1].details[DetailIndex(err, i)]
                        = MarshalAny(WithItems(err[i].msg,
                            Materialize(err[i].msg.type, supplied[err[i].id])))
        /\ nmut' # nmut => body' = body]_vars
  /\ []((body.done /\ body.from = err) => ToJSON(err) = [err |-> body.err, bytes |-> body.bytes])

\* one violation appended before ToJSON and one after: the envelope at hand
\* has the first only, the layer under the RetryInfo layer has both
C26_Witness ==
  /\ nmut = 2 /\ body.done /\ body.err = ""
  /\ body.from # err
  /\ Len(err) = 4 /\ err[2].kind = "errBadRequest" /\ ~IsProtoMessage(err[3])
  /\ Len(GetItems(err[2])) = 2
  /\ Len(body.bytes[1].details[2].fieldViolations) = 1
  /\ body.bytes[1].details[2].fieldViolations[1].field = <<GetItems(err[2])[1].Field>>

\* C27: for any chain c the envelope ToJSON(FromJSON(ToJSON(c))) has the
\* code and the message string of the envelope ToJSON(c).
C27_RoundTripKeepsMessage ==
  (/\ got.done /\ body.from # Nil /\ got.sterr # DecodeError
   /\ ToJSON(got.sterr).err = "")
    => /\ ToJSON(got.sterr).bytes[1].code = body.bytes[1].code
       /\ ToJSON(got.sterr).bytes[1].message = body.bytes[1].message

\* New(NotFound, "test error") written, read and written again: the code is
\* kept and the message has the code's name in front twice
C27_Witness ==
  /\ got.done /\ built.fn = "New" /\ built.code = NotFound /\ built.details = <<>>
  /\ body.bytes[1].message = <<"NotFound: test error">>
  /\ ToJSON(got.sterr).bytes[1].code = body.bytes[1].code
  /\ ToJSON(got.sterr).bytes[1].message = <<"NotFound: NotFound: test error">>

\* C28: for any chain with status layers, errors.Is(chain, sentinel of X)
\* is true exactly when X is the code of the outermost status layer; an
\* inner status layer with another code does not make the check for its
\* code succeed.
C28_SentinelAgreesWithClassification ==
  (err # Nil /\ StatusLayers(err) # {})
    => \A c \in SentinelCodes :
         Is(err, Sentinel(c)) <=> (ClassifiedCode(err) = <<c>>)

\* New(InvalidArgument, "test error", Code(NotFound)): classified NotFound,
\* and matched by ErrNotFound and by ErrInvalidArgument
C28_Witness ==
  /\ built.fn = "New" /\ built.code = InvalidArgument
  /\ built.details = <<[fn |-> "Code", arg |-> NotFound]>>
  /\ ClassifiedCode(err) = <<NotFound>>
  /\ Is(err, Sentinel(NotFound))
  /\ Is(err, Sentinel(InvalidArgument))

\* C29: for any envelope E that decodes, read with no mappers, ToJSON of
\* the chain FromJSON built succeeds and writes the code of E and the detail
\* entries of E in reverse order, each with its type key and its fields;
\* a layer of a kind that is not built in is written under its own type key.
C29_PassThroughKeepsDetails ==
  (/\ got.done /\ got.mappers = <<>> /\ body.from = Nil
   /\ got.sterr # DecodeError)
    => LET again == ToJSON(got.sterr)
       IN /\ again.err = ""
          /\ again.bytes[1].code = body.bytes[1].code
          /\ Len(again.bytes[1].details) = Len(body.bytes[1].details)
          /\ again.bytes[1].details = Reverse(body.bytes[1].details)

\* an envelope with a BadRequest entry and then a Duration entry, read and
\* written again: the Duration entry comes first, under its own type key
C29_Witness ==
  /\ got.done /\ got.mappers = <<>> /\ body.from = Nil
  /\ body.bytes # <<>> /\ got.sterr # DecodeError
  /\ Len(body.bytes[1].details) = 2
  /\ body.bytes[1].code = <<99>>
  /\ body.bytes[1].details[1].atType = TypeURL(TBadRequest)
  /\ body.bytes[1].details[2].atType = TypeURL(TDuration)
  /\ got.sterr[1].kind = "arbitraryError"
  /\ ToJSON(got.sterr).bytes[1].details[1] = body.bytes[1].details[2]
  /\ ToJSON(got.sterr).bytes[1].details[2] = body.bytes[1].details[1]

\* C30: with handlers that call Handle or SetErrorHandler while a report
\* invokes them, every call of Handle and of SetErrorHandler returns in every
\* interleaving.
C30_ReentrantCallsReturn ==
  \A g \in Goroutines : (gs[g].pc # "idle") ~> (gs[g].pc = "idle")

\* a handler invoked inside the read lock called Handle, whose RLock waits
\* for the SetErrorHandler of another goroutine, whose Lock waits for the
\* read lock of the first to be released
C30_Witness ==
  \E g, w \in Goroutines :
    /\ g # w
    /\ gs[g].pc = "nested.RLock" /\ g \in handler.mu.readers
    /\ gs[w].pc = "wait" /\ handler.mu.writer = <<w>>
    /\ \A x \in Goroutines :
         ~ENABLED (ReentrantStep(x) /\ UNCHANGED <<chainVars, resp, race, probe, callVars>>)

====
